---------------------------- MODULE Spec2Model ----------------------------
(***************************************************************************)
(* Model of src/Component/EarthquakeDashboard.js (the later, canonical     *)
(* component, lines 372-1380): the region classifier isEthiopiaLocation,   *)
(* the fetch cycle fetchEarthquakes with its novelty state, and the        *)
(* polling effect that drives it.                                          *)
(*                                                                         *)
(* Text is modelled as a sequence of one-character strings, so that        *)
(* String.prototype.includes, split and toLowerCase are computed on the    *)
(* characters as the JavaScript does.                                      *)
(***************************************************************************)
EXTENDS Integers, Sequences, FiniteSets, Bags

\* ------------------------------------------------------------------ text

\* JavaScript undefined and null as values of a place argument; neither is a
\* sequence of characters.
Undefined == <<"undefined">>

Null == <<"null">>

UpperChars ==
  <<"A", "B", "C", "D", "E", "F", "G", "H", "I", "J", "K", "L", "M",
    "N", "O", "P", "Q", "R", "S", "T", "U", "V", "W", "X", "Y", "Z">>

LowerChars ==
  <<"a", "b", "c", "d", "e", "f", "g", "h", "i", "j", "k", "l", "m",
    "n", "o", "p", "q", "r", "s", "t", "u", "v", "w", "x", "y", "z">>

\* excludeCountries (lines 386-389), in source order.
excludeCountries ==
  << <<"y", "e", "m", "e", "n">>,
     <<"e", "r", "i", "t", "r", "e", "a">>,
     <<"s", "u", "d", "a", "n">>,
     <<"s", "o", "u", "t", "h", " ", "s", "u", "d", "a", "n">>,
     <<"k", "e", "n", "y", "a">>,
     <<"s", "o", "m", "a", "l", "i", "a">>,
     <<"d", "j", "i", "b", "o", "u", "t", "i">>,
     <<"e", "g", "y", "p", "t">>,
     <<"l", "i", "b", "y", "a">>,
     <<"c", "h", "a", "d">>,
     <<"c", "o", "n", "g", "o">>,
     <<"u", "g", "a", "n", "d", "a">>,
     <<"t", "a", "n", "z", "a", "n", "i", "a">>,
     <<"r", "w", "a", "n", "d", "a">>,
     <<"b", "u", "r", "u", "n", "d", "i">> >>

\* ethiopiaKeywords (lines 399-414), in source order.
ethiopiaKeywords ==
  << <<"e", "t", "h", "i", "o", "p", "i", "a">>,
     <<"e", "t", "h", "i", "o", "p", "i", "a", "n">>,
     <<"a", "b", "y", "s", "s", "i", "n", "i", "a">>,
     <<"a", "b", "y", "s", "s", "i", "n", "i", "a", "n">>,
     <<"a", "d", "d", "i", "s", " ", "a", "b", "a", "b", "a">>,
     <<"a", "f", "a", "r">>,
     <<"a", "m", "h", "a", "r", "a">>,
     <<"o", "r", "o", "m", "i", "a">>,
     <<"t", "i", "g", "r", "a", "y">>,
     <<"s", "o", "m", "a", "l", "i">>,
     <<"g", "a", "m", "b", "e", "l", "a">>,
     <<"h", "a", "r", "a", "r", "i">>,
     <<"s", "i", "d", "a", "m", "a">>,
     <<"s", "n", "n", "p", "r">>,
     <<"d", "i", "r", "e", " ", "d", "a", "w", "a">>,
     <<"b", "e", "n", "i", "s", "h", "a", "n", "g", "u", "l">>,
     <<"g", "u", "m", "u", "z">>,
     <<"b", "a", "h", "i", "r", " ", "d", "a", "r">>,
     <<"m", "e", "k", "e", "l", "l", "e">>,
     <<"g", "o", "n", "d", "a", "r">>,
     <<"j", "i", "m", "m", "a">>,
     <<"j", "i", "j", "i", "g", "a">>,
     <<"d", "e", "s", "s", "i", "e">>,
     <<"h", "a", "w", "a", "s", "s", "a">>,
     <<"h", "a", "r", "a", "r">>,
     <<"d", "e", "b", "r", "e", " ", "b", "e", "r", "h", "a", "n">>,
     <<"a", "r", "b", "a", " ", "m", "i", "n", "c", "h">>,
     <<"s", "h", "a", "s", "h", "a", "m", "a", "n", "e">>,
     <<"n", "e", "k", "e", "m", "t", "e">>,
     <<"a", "s", "s", "o", "s", "a">>,
     <<"s", "e", "m", "e", "r", "a">>,
     <<"g", "o", "j", "j", "a", "m">>,
     <<"w", "o", "l", "l", "o">>,
     <<"g", "o", "n", "d", "e", "r">>,
     <<"w", "o", "l", "a", "y", "i", "t", "a">>,
     <<"g", "u", "r", "a", "g", "e">>,
     <<"h", "a", "d", "i", "y", "a">>,
     <<"k", "e", "m", "b", "a", "t", "a">>,
     <<"s", "i", "l", "t", "e">>,
     <<"b", "a", "l", "e">>,
     <<"a", "r", "s", "i">>,
     <<"h", "a", "r", "a", "r", "g", "h", "e">>,
     <<"b", "o", "r", "e", "n", "a">>,
     <<"g", "u", "j", "i">>,
     <<"i", "l", "l", "u", "b", "a", "b", "o", "r">>,
     <<"w", "o", "l", "l", "e", "g", "a">>,
     <<"w", "e", "l", "e", "g", "a">>,
     <<"g", "a", "m", "o">>,
     <<"g", "o", "f", "a">>,
     <<"k", "e", "f", "f", "a">>,
     <<"s", "h", "e", "k", "a">>,
     <<"b", "e", "n", "c", "h">>,
     <<"d", "a", "w", "u", "r", "o">>,
     <<"r", "i", "f", "t", " ", "v", "a", "l", "l", "e", "y">>,
     <<"a", "w", "a", "s", "h">>,
     <<"l", "a", "k", "e", " ", "t", "a", "n", "a">>,
     <<"b", "l", "u", "e", " ", "n", "i", "l", "e">>,
     <<"o", "m", "o", " ", "r", "i", "v", "e", "r">>,
     <<"a", "b", "a", "y", "a">>,
     <<"c", "h", "a", "m", "o">>,
     <<"z", "i", "w", "a", "y">>,
     <<"l", "a", "n", "g", "a", "n", "o">>,
     <<"s", "h", "a", "l", "a">>,
     <<"a", "w", "a", "s", "a">>,
     <<"t", "a", "n", "a">>,
     <<"t", "s", "a", "n", "a">> >>

\* 'ethiopia', the country name tested by the exclusion pass (line 393).
EthiopiaName == <<"e", "t", "h", "i", "o", "p", "i", "a">>

\* 'of ', the separator of the directional-phrase pass (line 424).
OfSep == <<"o", "f", " ">>

\* String.prototype.toLowerCase on one character (line 383).
ToLowerChar(c) ==
  IF \E i \in DOMAIN UpperChars : UpperChars[i] = c
    THEN LowerChars[CHOOSE i \in DOMAIN UpperChars : UpperChars[i] = c]
    ELSE c

\* toLowerCase left out: the text is matched in its original case.
toLowerCaseIdentity(s) == s

\* place.toLowerCase() (line 383).
toLowerCase(s) == [i \in 1..Len(s) |-> ToLowerChar(s[i])]

\* s.includes(k): k occurs in s as a contiguous substring (lines 393, 418, 424, 427).
includes(s, k) ==
  \E i \in 0..(Len(s) - Len(k)) : SubSeq(s, i + 1, i + Len(k)) = k

\* The 1-based position of the first occurrence of k in s; 0 when there is none.
indexOf(s, k) ==
  IF includes(s, k)
    THEN CHOOSE i \in 1..(Len(s) - Len(k) + 1) :
           /\ SubSeq(s, i, i + Len(k) - 1) = k
           /\ \A j \in 1..(i - 1) : SubSeq(s, j, j + Len(k) - 1) # k
    ELSE 0

\* s.split(sep)[1] for an s that contains sep (lines 425, 599, 632): the text
\* between the first occurrence of sep and the next one, or the end of s.
splitSecond(s, sep) ==
  LET first == indexOf(s, sep)
      rest  == SubSeq(s, first + Len(sep), Len(s))
      next  == indexOf(rest, sep)
  IN  IF next = 0 THEN rest ELSE SubSeq(rest, 1, next - 1)

\* !place (line 382): undefined, null and the empty string are falsy.
IsFalsy(place) == place = Undefined \/ place = Null \/ place = <<>>

\* Lines 392-396: some excluded country occurs and 'ethiopia' does not.
exclusionPass(placeLower) ==
  \E i \in DOMAIN excludeCountries :
    /\ includes(placeLower, excludeCountries[i])
    /\ ~includes(placeLower, EthiopiaName)

\* Lines 417-421 (and 426-430 on afterOf): some keyword occurs in the text.
inclusionPass(text) ==
  \E i \in DOMAIN ethiopiaKeywords : includes(text, ethiopiaKeywords[i])

\* A pass of lines 424-431 that takes every text with 'of ' in it to be in
\* region, whatever follows.
ofPassAnyPlace(placeLower) == includes(placeLower, OfSep)

\* Lines 424-431: the text after 'of ' holds a keyword.
ofPass(placeLower) ==
  /\ includes(placeLower, OfSep)
  /\ inclusionPass(splitSecond(placeLower, OfSep))

\* isEthiopiaLocation with the keyword loop of lines 417-421 moved before the
\* exclusion loop of lines 392-396.
returnReachedInclusionFirst(place) ==
  IF IsFalsy(place) THEN "falsy"
  ELSE LET placeLower == toLowerCase(place)
       IN  IF inclusionPass(placeLower) THEN "inclusion"
           ELSE IF exclusionPass(placeLower) THEN "exclusion"
           ELSE IF ofPass(placeLower) THEN "of"
           ELSE "default"

\* The return statement of isEthiopiaLocation that a call reaches
\* (lines 382, 394, 419, 428, 433).
returnReached(place) ==
  IF IsFalsy(place) THEN "falsy"
  ELSE LET placeLower == toLowerCase(place)
       IN  IF exclusionPass(placeLower) THEN "exclusion"
           ELSE IF inclusionPass(placeLower) THEN "inclusion"
           ELSE IF ofPass(placeLower) THEN "of"
           ELSE "default"

\* isEthiopiaLocation (lines 381-434).
isEthiopiaLocation(place) == returnReached(place) \in {"inclusion", "of"}

PfxNone == <<>>  \* ''

PfxNNEof == <<"5", "2", " ", "k", "m", " ", "N", "N", "E", " ", "o", "f", " ">>  \* '52 km NNE of '

PfxNof == <<"1", "0", " ", "k", "m", " ", "N", " ", "o", "f", " ">>  \* '10 km N of '

PfxNear == <<"n", "e", "a", "r", " ">>  \* 'near '

TownMekele == <<"M", "e", "k", "e", "l", "e">>  \* 'Mekele'

TownMekelle == <<"M", "e", "k", "e", "l", "l", "e">>  \* 'Mekelle'

TownAddisAbaba == <<"A", "d", "d", "i", "s", " ", "A", "b", "a", "b", "a">>  \* 'Addis Ababa'

TownKhartoum == <<"K", "h", "a", "r", "t", "o", "u", "m">>  \* 'Khartoum'

TownRedSea == <<"R", "e", "d", " ", "S", "e", "a">>  \* 'Red Sea'

TownGulfOfZula == <<"G", "u", "l", "f", " ", "o", "f", " ", "Z", "u", "l", "a">>  \* 'Gulf of Zula'

TownAwash == <<"A", "w", "a", "s", "h">>  \* 'Awash'

TownJijiga == <<"J", "i", "j", "i", "g", "a">>  \* 'Jijiga'

TownBosaso == <<"B", "o", "s", "a", "s", "o">>  \* 'Bosaso'

TownSomaliRegion == <<"S", "o", "m", "a", "l", "i", " ", "R", "e", "g", "i", "o", "n">>  \* 'Somali Region'

TownAfarDjiboutiBorder ==  \* 'Afar-Djibouti border'
  <<"A", "f", "a", "r", "-", "D", "j", "i", "b", "o", "u", "t", "i", " ",
    "b", "o", "r", "d", "e", "r">>

SfxNone == <<>>  \* ''

SfxEthiopia == <<",", " ", "E", "t", "h", "i", "o", "p", "i", "a">>  \* ', Ethiopia'

SfxYemen == <<",", " ", "Y", "e", "m", "e", "n">>  \* ', Yemen'

SfxSudan == <<",", " ", "S", "u", "d", "a", "n">>  \* ', Sudan'

SfxSomalia == <<",", " ", "S", "o", "m", "a", "l", "i", "a">>  \* ', Somalia'

SfxEritrea == <<",", " ", "E", "r", "i", "t", "r", "e", "a">>  \* ', Eritrea'

\* ------------------------------------------------- classifier call inputs

Prefixes == {PfxNone, PfxNNEof, PfxNof, PfxNear}

\* The "<distance> <direction> of " prefixes.
DirectionalPrefixes == {PfxNNEof, PfxNof}

Towns ==
  {TownMekele, TownMekelle, TownAddisAbaba, TownKhartoum, TownRedSea,
   TownGulfOfZula, TownAwash, TownJijiga, TownBosaso, TownSomaliRegion,
   TownAfarDjiboutiBorder}

Suffixes == {SfxNone, SfxEthiopia, SfxYemen, SfxSudan, SfxSomalia, SfxEritrea}

\* The place arguments the classifier is called with.
PlaceInputs ==
  {Undefined, Null, <<>>}
    \cup {p \o t \o s : p \in Prefixes, t \in Towns, s \in Suffixes}

VARIABLES
  cPlace,   \* the argument of the current call of isEthiopiaLocation
  cResult,  \* what the call returned
  cReturn,  \* the return statement it reached
  cPc       \* "call": about to run; "returned": has returned

cvars == <<cPlace, cResult, cReturn, cPc>>

ClassifyInit ==
  /\ cPlace \in PlaceInputs
  /\ cResult = FALSE
  /\ cReturn = "none"
  /\ cPc = "call"

\* ------------------------------------------------------------ feed data

\* An optional JavaScript value: None is an absent (undefined/null) one.
None == <<>>

Some(x) == <<x>>

\* 60 * 60 * 1000 (line 571): the novelty window in milliseconds.
OneHourMs == 60 * 60 * 1000

\* 5 * 60 * 1000 (line 661): the polling interval in milliseconds.
PollIntervalMs == 5 * 60 * 1000

\* One calendar day in milliseconds.
DayMs == 24 * OneHourMs

\* Instants are milliseconds since 2000-01-01T00:00Z, and a "YYYY-MM-DD" date
\* string is the number of its day since then.
\* new Date(dateString) (lines 696-697): a date-only string is parsed as the
\* first instant (midnight UTC) of its day.
DateOf(day) == day * DayMs

\* new Date(t).toISOString().slice(0,10) (lines 540, 810): the UTC day of t.
ISODate(t) == t \div DayMs

\* "2000-01-01" (lines 539, 809).
Date2000 == ISODate(0)

\* Date.now() when the component is constructed: 02:00 UTC of the third day.
StartTime == DateOf(2) + 2 * OneHourMs

\* The clock is observed after at most this many polling intervals.
MaxClockSteps == 1

\* At most this many fetches are outstanding at once.
MaxInFlight == 2

\* A GeoJSON feature of the response (section 6 of the feed format): id,
\* geometry.coordinates, properties.time/mag/place as lines 560-565 read them,
\* properties.url as lines 459 and 762 read it.  The numbers of the feed
\* (magnitude, longitude, latitude, depth) are held in tenths; a coordinate or
\* a magnitude is None where the feed has null.
Feature(id, coordinates, time, mag, place) ==
  [id |-> id,
   geometry |-> Some([coordinates |-> coordinates]),
   properties |-> Some([time |-> time, mag |-> mag, place |-> place,
                        url |-> Some(<<"h", "t", "t", "p", ":", "/", "/", "u",
                                       "/", id>>)])]

Coords3 == <<Some(390), Some(90), Some(100)>>

FeatA == Feature("A", Coords3, 1000, Some(45), TownAddisAbaba \o SfxEthiopia)

FeatB == Feature("B", Coords3, 2000, None, PfxNear \o TownAwash)

FeatC == Feature("C", Coords3, 3000, Some(30), PfxNof \o TownJijiga)

\* Fresh for the whole run of the clock.
FeatD ==
  Feature("D", Coords3, StartTime - 2 * PollIntervalMs, Some(52),
          PfxNNEof \o TownMekelle)

\* Exactly one hour old once the clock has advanced by one polling interval.
FeatE ==
  Feature("E", Coords3, StartTime + PollIntervalMs - OneHourMs, None,
          TownAddisAbaba \o SfxEthiopia)

FeatNoId == Feature("", Coords3, StartTime, Some(40), TownAddisAbaba)

FeatNoTime == Feature("T", Coords3, 0, Some(40), TownAddisAbaba)

FeatTwoCoords == Feature("W", <<Some(390), Some(90)>>, StartTime, Some(40), TownAddisAbaba)

FeatNoGeometry ==
  [id |-> "G", geometry |-> None,
   properties |-> Some([time |-> StartTime, mag |-> Some(40),
                        place |-> TownAddisAbaba, url |-> None])]

FeatNoProperties ==
  [id |-> "P", geometry |-> Some([coordinates |-> Coords3]), properties |-> None]

FeatYemen == Feature("Y", Coords3, StartTime, Some(50), TownRedSea \o SfxYemen)

FeatMekele == Feature("M", Coords3, StartTime, Some(50), PfxNNEof \o TownMekele)

FeatNoPlace == Feature("U", Coords3, StartTime, Some(50), Undefined)

\* The feature collections (data.features, line 560) the feed answers with.
FeedResponses ==
  << <<>>,
     <<FeatA, FeatB, FeatC>>,
     <<FeatA, FeatB, FeatD>>,
     <<FeatNoGeometry, FeatE, FeatTwoCoords, FeatNoProperties>>,
     <<FeatE, FeatNoId, FeatYemen, FeatD, FeatNoTime, FeatMekele, FeatNoPlace,
       FeatA>> >>

\* What `await fetch(url)` / `await res.json()` / `data.features` can give
\* (lines 556-560): a rejected request, an unparseable body, a payload with no
\* features array, or a payload with one.
FailureKinds == {"rejected", "unparseable", "nofeatures"}

\* Records of the feed on both sides of the day the component is built on.
\* The first instant of that day.
FeatMidnight ==
  Feature("N", Coords3, DateOf(ISODate(StartTime)), Some(41),
          TownAwash \o SfxEthiopia)

\* The last millisecond of the day before.
FeatYesterday ==
  Feature("V", Coords3, DateOf(ISODate(StartTime)) - 1, Some(46),
          TownMekelle \o SfxEthiopia)

\* A record of magnitude 0.0, 45 minutes before the component is built.
FeatZeroMag ==
  Feature("Z", Coords3, StartTime - 9 * PollIntervalMs, Some(0),
          TownJijiga \o SfxEthiopia)

\* A record without a depth: coordinates [lon, lat, null].
FeatNoDepth ==
  Feature("H", <<Some(401), Some(85), None>>, StartTime - 4 * PollIntervalMs,
          Some(38), PfxNof \o TownAwash \o SfxEthiopia)

\* A record without properties.url.
FeatNoUrl ==
  [id |-> "L",
   geometry |-> Some([coordinates |-> Coords3]),
   properties |-> Some([time |-> 4000, mag |-> Some(47),
                        place |-> TownMekelle, url |-> None])]

\* A record without a depth and without properties.url.
FeatNoDepthNoUrl ==
  [id |-> "K",
   geometry |-> Some([coordinates |-> <<Some(390), Some(90), None>>]),
   properties |-> Some([time |-> 5000, mag |-> Some(33),
                        place |-> TownJijiga \o SfxEthiopia, url |-> None])]

\* ---------------------------------------------------- function call state

VARIABLES
  invoked  \* the call of the filter effect, of the serializers or of the alert
           \* block that is examined on its own: its arguments, its position
           \* and what it has produced so far; NotInvoked when there is none

NotInvoked == [fn |-> "none"]

NoCsv == [alert |-> "", document |-> None]

NoAlerts == [cue |-> FALSE, spoken |-> <<>>, alerts |-> <<>>]

\* ------------------------------------------------------- component state

VARIABLES
  phase,                   \* "constructed", "mounted" or "unmounted"
  now,                     \* Date.now()
  timer,                   \* None, or Some(due time) of the setInterval of line 661
  inflight,                \* the bag of calls of fetchEarthquakes awaiting their response
  earthquakes,             \* useState, line 537
  previousEarthquakeIds,   \* useState, line 545
  announcedEarthquakeIds,  \* useState, line 546
  isLoading,               \* useState, line 543
  lastUpdated,             \* useState, line 544
  speechQueue,             \* utterances window.speechSynthesis holds, by record id
  out,                     \* what the fetch cycle that ended last requested
  alerted,                 \* the record ids some completed cycle has alerted
  alertedAgain             \* the record ids a later cycle has alerted again

mvars ==
  <<phase, now, timer, inflight, earthquakes, previousEarthquakeIds,
    announcedEarthquakeIds, isLoading, lastUpdated, speechQueue, out, alerted,
    alertedAgain>>

VARIABLES
  filteredEarthquakes,  \* useState, line 538
  startDate,            \* useState, line 539: None for '', Some(day) for a date
  endDate,              \* useState, line 540, likewise
  minMag,               \* useState, line 541, in tenths
  isDownloading,        \* useState, line 547
  kmzPending,           \* None, or Some(the call of downloadKMZ awaiting line 796)
  exported,             \* what the export handler that ended last did
  effectsPending        \* a render is committed whose effects (lines 659, 671)
                        \* have not run yet

xvars ==
  <<filteredEarthquakes, startDate, endDate, minMag, isDownloading, kmzPending,
    exported, effectsPending>>

\* The state of the component.
compvars == <<mvars, xvars>>

\* The state of the calls of the pure functions.
callvars == <<cvars, invoked>>

vars == <<compvars, callvars>>

\* An export handler's requests: nothing.
NoExport == [kind |-> "none", alert |-> "", console |-> "", file |-> None]

\* The requests of one fetch cycle: nothing.
NoOut ==
  [kind |-> "none", novel |-> <<>>, cue |-> FALSE, plays |-> 0,
   spoken |-> <<>>, headline |-> "", mounted |-> TRUE]

\* The useState initial values of lines 537-547.
MainInit ==
  /\ phase = "constructed"
  /\ now = StartTime
  /\ timer = None
  /\ inflight = EmptyBag
  /\ earthquakes = <<>>
  /\ previousEarthquakeIds = {}
  /\ announcedEarthquakeIds = {}
  /\ isLoading = FALSE
  /\ lastUpdated = StartTime
  /\ speechQueue = <<>>
  /\ out = NoOut
  /\ alerted = {}
  /\ alertedAgain = {}
  /\ filteredEarthquakes = <<>>
  /\ startDate = Some(Date2000)
  /\ endDate = Some(ISODate(StartTime))
  /\ minMag = 0
  /\ isDownloading = FALSE
  /\ kmzPending = None
  /\ exported = NoExport
  /\ effectsPending = FALSE

ClassifyIdle ==
  /\ cPlace = <<>>
  /\ cResult = FALSE
  /\ cReturn = "none"
  /\ cPc = "idle"

Init == MainInit /\ ClassifyIdle /\ invoked = NotInvoked

\* ------------------------------------------------------------ helpers

Ids(features) == {features[i].id : i \in DOMAIN features}

\* The filter predicate without the region test (as in the earlier component,
\* lines 54-57).
IsValidFeatureAnyRegion(f) ==
  /\ f.geometry # None
  /\ f.geometry[1].coordinates # Null
  /\ Len(f.geometry[1].coordinates) = 3
  /\ f.properties # None
  /\ f.properties[1].time # 0
  /\ f.id # ""

\* The filter predicate of lines 560-565; 0 and "" are the falsy time and id.
IsValidFeature(f) ==
  /\ f.geometry # None
  /\ f.geometry[1].coordinates # Null
  /\ Len(f.geometry[1].coordinates) = 3
  /\ f.properties # None
  /\ f.properties[1].time # 0
  /\ f.id # ""
  /\ isEthiopiaLocation(f.properties[1].place)

\* validFeatures (lines 560-565).
ValidFeatures(features) == SelectSeq(features, IsValidFeature)

\* newEarthquakes without the test against the announced ids (line 575).
NovelIgnoringAnnounced(validFeatures, prevIds, annIds, clock) ==
  SelectSeq(validFeatures,
            LAMBDA f : /\ f.id \notin prevIds
                       /\ f.properties[1].time > clock - OneHourMs)

\* validFeatures of each response of the feed, computed once.
ValidFeaturesOf ==
  [r \in DOMAIN FeedResponses |-> ValidFeatures(FeedResponses[r])]

\* newEarthquakes (lines 571-577), from the sets the call closed over.
NewEarthquakes(validFeatures, prevIds, annIds, clock) ==
  SelectSeq(validFeatures,
            LAMBDA f : /\ f.id \notin prevIds
                       /\ f.id \notin annIds
                       /\ f.properties[1].time > clock - OneHourMs)

\* The speech part of the loop of lines 590-624 on the utterances speechSynthesis
\* holds: every iteration calls cancel() (line 614), which empties the queue,
\* and then speak() (line 622), which appends the utterance of its record.
RECURSIVE speakEach(_, _)
speakEach(utterances, queue) ==
  IF utterances = <<>> THEN queue
  ELSE speakEach(Tail(utterances), Append(<<>>, Head(utterances)))

\* The calls of audioRef.current.play() in one cycle (lines 579-587): one, in
\* front of the loop over the new records; audio tells whether audioRef.current
\* is set.
playCalls(newEarthquakes, audio) ==
  IF Len(newEarthquakes) > 0 /\ audio THEN 1 ELSE 0

\* A call of fetchEarthquakes up to its first await (lines 552-556): the
\* callback closes over the novelty sets of the render that created it
\* (useCallback, line 657).
StartedFetch ==
  [prev |-> previousEarthquakeIds, ann |-> announcedEarthquakeIds]

\* ------------------------------------------------------------ numbers

DigitChars == <<"0", "1", "2", "3", "4", "5", "6", "7", "8", "9">>

\* The decimal digits of a natural number.
RECURSIVE NatText(_)
NatText(n) ==
  IF n < 10 THEN <<DigitChars[n + 1]>>
  ELSE NatText(n \div 10) \o <<DigitChars[(n % 10) + 1]>>

Abs(x) == IF x < 0 THEN 0 - x ELSE x

SignText(x) == IF x < 0 THEN <<"-">> ELSE <<>>

Zeros(k) == [i \in 1..k |-> "0"]

\* Number.prototype.toFixed(digits), digits >= 1, of a number held in tenths.
toFixed(x, digits) ==
  SignText(x) \o NatText(Abs(x) \div 10) \o <<".">>
    \o <<DigitChars[(Abs(x) % 10) + 1]>> \o Zeros(digits - 1)

\* String(x), as a template literal renders a number held in tenths.
NumberText(x) ==
  SignText(x) \o NatText(Abs(x) \div 10)
    \o (IF Abs(x) % 10 = 0 THEN <<>> ELSE <<".", DigitChars[(Abs(x) % 10) + 1]>>)

\* ------------------------------------------------------------ filter

\* The callback of earthquakes.filter (lines 686-700) where a null magnitude
\* is not tested for: null >= minMag compares null as the number 0.
passesFilterNullAsZero(eq, startD, endD, minM) ==
  IF eq.properties = None \/ eq.geometry = None THEN FALSE
  ELSE
    LET eqTime == IF eq.properties[1].time # 0
                  THEN Some(eq.properties[1].time) ELSE None
        eqMag == eq.properties[1].mag
    IN  IF eqTime = None THEN FALSE
        ELSE
          LET isAfterStart ==
                startD = None \/ eqTime[1] >= DateOf(startD[1])
              isBeforeEnd == endD = None \/ eqTime[1] <= DateOf(endD[1])
              isMagValid == (IF eqMag = None THEN 0 ELSE eqMag[1]) >= minM
          IN  isAfterStart /\ isBeforeEnd /\ isMagValid

\* The callback of earthquakes.filter (lines 686-700).
passesFilter(eq, startD, endD, minM) ==
  IF eq.properties = None \/ eq.geometry = None THEN FALSE
  ELSE
    LET eqTime == IF eq.properties[1].time # 0
                  THEN Some(eq.properties[1].time) ELSE None
        eqMag == eq.properties[1].mag
    IN  IF eqTime = None \/ eqMag = None THEN FALSE
        ELSE
          LET isAfterStart ==
                startD = None \/ eqTime[1] >= DateOf(startD[1])
              isBeforeEnd == endD = None \/ eqTime[1] <= DateOf(endD[1])
              isMagValid == eqMag[1] >= minM
          IN  isAfterStart /\ isBeforeEnd /\ isMagValid

\* A filter that removes the failing records from the array itself while it
\* walks it forward: after a splice the next record is skipped.
RECURSIVE spliceWalk(_, _, _, _, _)
spliceWalk(list, i, startD, endD, minM) ==
  IF i > Len(list) THEN list
  ELSE IF passesFilter(list[i], startD, endD, minM)
       THEN spliceWalk(list, i + 1, startD, endD, minM)
       ELSE spliceWalk(SubSeq(list, 1, i - 1) \o SubSeq(list, i + 1, Len(list)),
                       i + 1, startD, endD, minM)

applyFiltersInPlace(list, startD, endD, minM) ==
  LET left == spliceWalk(list, 1, startD, endD, minM)
  IN  [filtered |-> left, earthquakes |-> left]

\* The body of the filter effect (lines 680-702): the list it hands to
\* setFilteredEarthquakes, and the array it read as it leaves it
\* (Array.prototype.filter builds a new array).
applyFilters(list, startD, endD, minM) ==
  [filtered |->
     IF Len(list) = 0 THEN <<>>
     ELSE SelectSeq(list, LAMBDA eq : passesFilter(eq, startD, endD, minM)),
   earthquakes |-> list]

\* formatMagnitude (lines 723-726).
formatMagnitude(mag) ==
  IF mag = None THEN <<"N", "/", "A">> ELSE toFixed(mag[1], 1)

\* ------------------------------------------------------------ actions

\* The polling effect's first run (lines 659-661).
Mount ==
  /\ phase = "constructed"
  /\ phase' = "mounted"
  /\ inflight' = inflight (+) SetToBag({StartedFetch})
  /\ isLoading' = TRUE
  /\ timer' = Some(now + PollIntervalMs)
  /\ UNCHANGED <<now, earthquakes, previousEarthquakeIds,
                 announcedEarthquakeIds, lastUpdated, speechQueue, out, alerted,
                 alertedAgain, xvars, callvars>>

\* The interval of line 661 fires and calls the fetchEarthquakes it was set
\* with, which is the current one: the effect resets the interval whenever the
\* callback changes (line 668).
TimerTick ==
  /\ phase = "mounted"
  /\ timer # None
  /\ now >= timer[1]
  /\ BagCardinality(inflight) < MaxInFlight
  /\ inflight' = inflight (+) SetToBag({StartedFetch})
  /\ isLoading' = TRUE
  /\ timer' = Some(timer[1] + PollIntervalMs)
  /\ UNCHANGED <<phase, now, earthquakes, previousEarthquakeIds,
                 announcedEarthquakeIds, lastUpdated, speechQueue, out, alerted,
                 alertedAgain, xvars, callvars>>

\* A click on the notification bell (line 940).
BellClick ==
  /\ phase = "mounted"
  /\ BagCardinality(inflight) < MaxInFlight
  /\ inflight' = inflight (+) SetToBag({StartedFetch})
  /\ isLoading' = TRUE
  /\ UNCHANGED <<phase, now, timer, earthquakes, previousEarthquakeIds,
                 announcedEarthquakeIds, lastUpdated, speechQueue, out, alerted,
                 alertedAgain, xvars, callvars>>

\* A failure path without the finally of lines 654-656.
FetchFailKeepsLoading(call, kind) ==
  /\ BagIn(call, inflight)
  /\ kind \in FailureKinds
  /\ inflight' = inflight (-) SetToBag({call})
  /\ out' = [NoOut EXCEPT !.kind = "fail", !.mounted = (phase = "mounted")]
  /\ UNCHANGED <<phase, now, timer, earthquakes, previousEarthquakeIds,
                 announcedEarthquakeIds, isLoading, lastUpdated, speechQueue,
                 alerted, alertedAgain, xvars, callvars>>

\* The awaits of lines 556-557 or the read of data.features (line 560)
\* throw: catch logs (line 653) and finally clears the flag (line 655).
\* setState on an unmounted component does nothing.
FetchFail(call, kind) ==
  /\ BagIn(call, inflight)
  /\ kind \in FailureKinds
  /\ inflight' = inflight (-) SetToBag({call})
  /\ isLoading' = IF phase = "mounted" THEN FALSE ELSE isLoading
  /\ out' = [NoOut EXCEPT !.kind = "fail", !.mounted = (phase = "mounted")]
  /\ UNCHANGED <<phase, now, timer, earthquakes, previousEarthquakeIds,
                 announcedEarthquakeIds, lastUpdated, speechQueue, alerted,
                 alertedAgain, xvars, callvars>>

\* The response of a call arrives with a features array (lines 557-650), the
\* state updates are rendered, and the polling effect, whose dependency
\* fetchEarthquakes is a new callback after setPreviousEarthquakeIds(new Set),
\* is cleaned up and run again (lines 659-668).  The setState calls of one
\* continuation are rendered together (React 18 batching), so the effect
\* re-runs once per completed cycle.  window.speechSynthesis is taken to exist.
\* After unmount the setState calls do nothing and no effect runs.
FetchSuccess(call, r) ==
  /\ BagIn(call, inflight)
  /\ r \in DOMAIN FeedResponses
  /\ LET mounted == phase = "mounted"
         validFeatures == ValidFeaturesOf[r]
         currentIds == Ids(validFeatures)
         newEarthquakes == NewEarthquakes(validFeatures, call.prev, call.ann, now)
         newIds == Ids(newEarthquakes)
         alerting == Len(newEarthquakes) > 0
         newAnnouncedIds == call.ann \cup newIds
         annNext == IF mounted /\ alerting THEN newAnnouncedIds
                    ELSE announcedEarthquakeIds
         prevNext == IF mounted THEN currentIds ELSE previousEarthquakeIds
         \* lines 590-624: each iteration cancels the queue, then speaks
         spokenQueue ==
           speakEach([k \in DOMAIN newEarthquakes |-> newEarthquakes[k].id],
                     speechQueue)
     IN  /\ IF mounted
              THEN \* cleanup (lines 663-666), then the effect body (660-661)
                   /\ speechQueue' = <<>>
                   /\ inflight' = (inflight (-) SetToBag({call}))
                                     (+) SetToBag({[prev |-> prevNext,
                                                    ann |-> annNext]})
                   /\ isLoading' = TRUE
                   /\ timer' = Some(now + PollIntervalMs)
              ELSE /\ speechQueue' = spokenQueue
                   /\ inflight' = inflight (-) SetToBag({call})
                   /\ UNCHANGED <<isLoading, timer>>
         /\ earthquakes' = IF mounted THEN validFeatures ELSE earthquakes
         /\ previousEarthquakeIds' = prevNext
         /\ announcedEarthquakeIds' = annNext
         /\ lastUpdated' = IF mounted THEN now ELSE lastUpdated
         /\ out' = [kind |-> "ok",
                    novel |-> [k \in DOMAIN newEarthquakes |-> newEarthquakes[k].id],
                    \* line 585: audioRef.current is null once unmounted
                    cue |-> alerting /\ mounted,
                    plays |-> playCalls(newEarthquakes, mounted),
                    spoken |-> [k \in DOMAIN newEarthquakes |-> newEarthquakes[k].id],
                    headline |-> IF alerting
                                   THEN newEarthquakes[Len(newEarthquakes)].id
                                   ELSE "",
                    mounted |-> mounted]
         /\ alerted' = alerted \cup newIds
         /\ alertedAgain' = alertedAgain \cup (alerted \cap newIds)
         \* the filter effect (lines 672-703) runs on the new store
         /\ filteredEarthquakes' =
              IF mounted
                THEN applyFilters(validFeatures, startDate, endDate,
                                  minMag).filtered
                ELSE filteredEarthquakes
         /\ effectsPending' = (effectsPending /\ ~mounted)
  /\ UNCHANGED <<phase, now, startDate, endDate, minMag, isDownloading,
                 kmzPending, exported, callvars>>

\* The component unmounts: the effect's cleanup (lines 662-667).
Unmount ==
  /\ phase = "mounted"
  /\ phase' = "unmounted"
  /\ timer' = None
  /\ speechQueue' = <<>>
  /\ UNCHANGED <<now, inflight, earthquakes, previousEarthquakeIds,
                 announcedEarthquakeIds, isLoading, lastUpdated, out, alerted,
                 alertedAgain, xvars, callvars>>

\* Time passes.
AdvanceTime ==
  /\ now < StartTime + MaxClockSteps * PollIntervalMs
  /\ now' = now + PollIntervalMs
  /\ UNCHANGED <<phase, timer, inflight, earthquakes, previousEarthquakeIds,
                 announcedEarthquakeIds, isLoading, lastUpdated, speechQueue,
                 out, alerted, alertedAgain, xvars, callvars>>

Next ==
  \/ Mount
  \/ TimerTick
  \/ BellClick
  \/ \E call \in BagToSet(inflight), kind \in FailureKinds :
       FetchFail(call, kind)
  \/ \E call \in BagToSet(inflight), r \in DOMAIN FeedResponses :
       FetchSuccess(call, r)
  \/ Unmount
  \/ AdvanceTime

Spec == Init /\ [][Next]_vars

\* ------------------------------------------------- criteria and exports

\* The dates the date inputs of the page are set to.
CriteriaDates == {None, Some(Date2000), Some(ISODate(StartTime))}

\* The values the magnitude input of the page is set to, in tenths.
CriteriaMags == {0, 45}

\* The start date input changes (line 1031); the filter effect runs.  The
\* render of an input event first runs the effects that are pending, so the
\* criteria handlers act on a page whose effects have run.
SetStartDate(d) ==
  /\ phase = "mounted"
  /\ ~effectsPending
  /\ d \in CriteriaDates
  /\ startDate' = d
  /\ filteredEarthquakes' = applyFilters(earthquakes, d, endDate, minMag).filtered
  /\ UNCHANGED <<mvars, endDate, minMag, isDownloading, kmzPending, exported,
                 effectsPending, callvars>>

\* The end date input changes (line 1042); the filter effect runs.
SetEndDate(d) ==
  /\ phase = "mounted"
  /\ ~effectsPending
  /\ d \in CriteriaDates
  /\ endDate' = d
  /\ filteredEarthquakes' =
       applyFilters(earthquakes, startDate, d, minMag).filtered
  /\ UNCHANGED <<mvars, startDate, minMag, isDownloading, kmzPending, exported,
                 effectsPending, callvars>>

\* A magnitude input whose change also runs the polling effect and so starts
\* a fetch, as it would with the criteria among the dependencies of line 657.
SetMinMagRefetches(m) ==
  /\ phase = "mounted"
  /\ ~effectsPending
  /\ m \in CriteriaMags
  /\ BagCardinality(inflight) < MaxInFlight
  /\ minMag' = m
  /\ inflight' = inflight (+) SetToBag({StartedFetch})
  /\ isLoading' = TRUE
  /\ speechQueue' = <<>>
  /\ filteredEarthquakes' =
       applyFilters(earthquakes, startDate, endDate, m).filtered
  /\ UNCHANGED <<phase, now, timer, earthquakes, previousEarthquakeIds,
                 announcedEarthquakeIds, lastUpdated, out, alerted,
                 alertedAgain, startDate, endDate, isDownloading, kmzPending,
                 exported, effectsPending, callvars>>

\* The magnitude input changes (line 1054); the filter effect runs.
SetMinMag(m) ==
  /\ phase = "mounted"
  /\ ~effectsPending
  /\ m \in CriteriaMags
  /\ minMag' = m
  /\ filteredEarthquakes' =
       applyFilters(earthquakes, startDate, endDate, m).filtered
  /\ UNCHANGED <<mvars, startDate, endDate, isDownloading, kmzPending, exported,
                 effectsPending, callvars>>

\* clearFilters (lines 808-812); the filter effect runs.
ClearFilters ==
  /\ phase = "mounted"
  /\ ~effectsPending
  /\ startDate' = Some(Date2000)
  /\ endDate' = Some(ISODate(now))
  /\ minMag' = 0
  /\ filteredEarthquakes' =
       applyFilters(earthquakes, Some(Date2000), Some(ISODate(now)), 0).filtered
  /\ UNCHANGED <<mvars, isDownloading, kmzPending, exported, effectsPending,
                 callvars>>

\* The file an export hands to the browser: its name
\* `ethiopia_earthquakes_${startDate}_to_${endDate}.<kind>` (lines 774, 798)
\* and the records its document is written from.
ExportFile(kind, records, startD, endD) ==
  [name |-> <<"ethiopia_earthquakes_", startD, "_to_", endD, ".", kind>>,
   records |-> records]

\* The alert of lines 730 and 782.
NothingToDownload ==
  [NoExport EXCEPT !.kind = "empty",
                   !.alert = "No earthquakes to download for the selected filters."]

\* What the catch of lines 800-802 reports.
ExportFailure ==
  [NoExport EXCEPT !.kind = "failed",
                   !.console = "Error creating KMZ:",
                   !.alert = "Error creating KMZ file. Please try again."]

\* A click on the CSV button (line 1093): downloadCSV (lines 728-778).
DownloadCSV ==
  /\ phase = "mounted"
  /\ exported' =
       IF Len(filteredEarthquakes) = 0 THEN NothingToDownload
       ELSE [NoExport EXCEPT
               !.kind = "csv",
               !.file = Some(ExportFile("csv", filteredEarthquakes, startDate,
                                        endDate))]
  /\ UNCHANGED <<mvars, filteredEarthquakes, startDate, endDate, minMag,
                 isDownloading, kmzPending, effectsPending, callvars>>

\* A KMZ button without disabled={isDownloading} (line 1119): downloadKMZ is
\* entered whatever export is in progress.
DownloadKMZEnabled ==
  /\ phase = "mounted"
  /\ IF Len(filteredEarthquakes) = 0
       THEN /\ exported' = NothingToDownload
            /\ UNCHANGED <<isDownloading, kmzPending>>
       ELSE /\ isDownloading' = TRUE
            /\ kmzPending' = Some([records |-> filteredEarthquakes,
                                   startDate |-> startDate,
                                   endDate |-> endDate])
            /\ UNCHANGED exported
  /\ UNCHANGED <<mvars, filteredEarthquakes, startDate, endDate, minMag,
                 effectsPending, callvars>>

\* A click on the KMZ button, which is disabled while isDownloading
\* (line 1119): downloadKMZ up to its await (lines 780-796).
DownloadKMZ ==
  /\ phase = "mounted"
  /\ ~isDownloading
  /\ IF Len(filteredEarthquakes) = 0
       THEN /\ exported' = NothingToDownload
            /\ UNCHANGED <<isDownloading, kmzPending>>
       ELSE /\ isDownloading' = TRUE
            /\ kmzPending' = Some([records |-> filteredEarthquakes,
                                   startDate |-> startDate,
                                   endDate |-> endDate])
            /\ UNCHANGED exported
  /\ UNCHANGED <<mvars, filteredEarthquakes, startDate, endDate, minMag,
                 effectsPending, callvars>>

\* A click on the KMZ button where new JSZip() or zip.file (lines 792-793)
\* throws: catch and finally run before the handler returns, and the flag is
\* rendered false.
DownloadKMZThrows ==
  /\ phase = "mounted"
  /\ ~isDownloading
  /\ Len(filteredEarthquakes) > 0
  /\ exported' = ExportFailure
  /\ UNCHANGED <<mvars, filteredEarthquakes, startDate, endDate, minMag,
                 isDownloading, kmzPending, effectsPending, callvars>>

\* zip.generateAsync resolves: saveAs (line 798), then finally (line 804).
KMZSaved ==
  /\ kmzPending # None
  /\ exported' =
       [NoExport EXCEPT
          !.kind = "kmz",
          !.file = Some(ExportFile("kmz", kmzPending[1].records,
                                   kmzPending[1].startDate,
                                   kmzPending[1].endDate))]
  /\ isDownloading' = FALSE
  /\ kmzPending' = None
  /\ UNCHANGED <<mvars, filteredEarthquakes, startDate, endDate, minMag,
                 effectsPending, callvars>>

\* A rejection of zip.generateAsync whose handler has no finally.
KMZFailKeepsDownloading ==
  /\ kmzPending # None
  /\ exported' = ExportFailure
  /\ kmzPending' = None
  /\ UNCHANGED <<mvars, filteredEarthquakes, startDate, endDate, minMag,
                 isDownloading, effectsPending, callvars>>

\* zip.generateAsync rejects: catch (lines 800-802), then finally (line 804).
KMZFail ==
  /\ kmzPending # None
  /\ exported' = ExportFailure
  /\ isDownloading' = FALSE
  /\ kmzPending' = None
  /\ UNCHANGED <<mvars, filteredEarthquakes, startDate, endDate, minMag,
                 effectsPending, callvars>>

\* The response of a call arrives (lines 557-656) and the state updates of the
\* continuation are rendered, but the effects of that render have not run yet:
\* the render of a promise continuation is not the render of a click or of an
\* input event, whose effects run before the event returns, and React runs
\* its effects in a later task.  The handlers of the page are those of the
\* new render: they see the new store and the filtered list of the old one.
FetchSuccessRendered(call, r) ==
  /\ phase = "mounted"
  /\ BagIn(call, inflight)
  /\ r \in DOMAIN FeedResponses
  /\ LET validFeatures == ValidFeaturesOf[r]
         newEarthquakes ==
           NewEarthquakes(validFeatures, call.prev, call.ann, now)
         newIds == Ids(newEarthquakes)
         alerting == Len(newEarthquakes) > 0
     IN  /\ inflight' = inflight (-) SetToBag({call})
         /\ isLoading' = FALSE
         /\ speechQueue' =
              speakEach([k \in DOMAIN newEarthquakes |-> newEarthquakes[k].id],
                        speechQueue)
         /\ earthquakes' = validFeatures
         /\ previousEarthquakeIds' = Ids(validFeatures)
         /\ announcedEarthquakeIds' =
              IF alerting THEN call.ann \cup newIds ELSE announcedEarthquakeIds
         /\ lastUpdated' = now
         /\ out' = [kind |-> "ok",
                    novel |-> [k \in DOMAIN newEarthquakes |->
                                 newEarthquakes[k].id],
                    cue |-> alerting,
                    plays |-> playCalls(newEarthquakes, TRUE),
                    spoken |-> [k \in DOMAIN newEarthquakes |->
                                  newEarthquakes[k].id],
                    headline |-> IF alerting
                                   THEN newEarthquakes[Len(newEarthquakes)].id
                                   ELSE "",
                    mounted |-> TRUE]
         /\ alerted' = alerted \cup newIds
         /\ alertedAgain' = alertedAgain \cup (alerted \cap newIds)
  /\ effectsPending' = TRUE
  /\ UNCHANGED <<phase, now, timer, filteredEarthquakes, startDate, endDate,
                 minMag, isDownloading, kmzPending, exported, callvars>>

\* The effects of the last render run: the cleanup and the body of the polling
\* effect, whose dependency fetchEarthquakes is new (lines 659-668), and the
\* filter effect, whose dependency earthquakes is new (lines 671-703).
PassiveEffects ==
  /\ phase = "mounted"
  /\ effectsPending
  /\ effectsPending' = FALSE
  /\ speechQueue' = <<>>
  /\ inflight' = inflight (+) SetToBag({StartedFetch})
  /\ isLoading' = TRUE
  /\ timer' = Some(now + PollIntervalMs)
  /\ filteredEarthquakes' =
       applyFilters(earthquakes, startDate, endDate, minMag).filtered
  /\ UNCHANGED <<phase, now, earthquakes, previousEarthquakeIds,
                 announcedEarthquakeIds, lastUpdated, out, alerted,
                 alertedAgain, startDate, endDate, minMag, isDownloading,
                 kmzPending, exported, callvars>>

\* The page with its criteria inputs and export buttons, fed by the fetch
\* cycle the mount starts.
NextExport ==
  \/ Mount
  \/ \E call \in BagToSet(inflight), kind \in FailureKinds :
       FetchFail(call, kind)
  \/ \E call \in BagToSet(inflight), r \in DOMAIN FeedResponses :
       FetchSuccess(call, r)
  \/ \E call \in BagToSet(inflight), r \in DOMAIN FeedResponses :
       FetchSuccessRendered(call, r)
  \/ PassiveEffects
  \/ \E d \in CriteriaDates : SetStartDate(d)
  \/ \E d \in CriteriaDates : SetEndDate(d)
  \/ \E m \in CriteriaMags : SetMinMag(m)
  \/ ClearFilters
  \/ DownloadCSV
  \/ DownloadKMZ
  \/ DownloadKMZThrows
  \/ KMZSaved
  \/ KMZFail

SpecExport == Init /\ [][NextExport]_vars

\* The CSV button on a page whose fetches overlap: the bell starts a fetch
\* while another is in flight, responses arrive and are rendered, and the
\* button is clicked in between.
NextSnapshot ==
  \/ Mount
  \/ BellClick
  \/ \E call \in BagToSet(inflight), r \in DOMAIN FeedResponses :
       FetchSuccessRendered(call, r)
  \/ PassiveEffects
  \/ DownloadCSV

SpecSnapshot == Init /\ [][NextSnapshot]_vars

\* The life of the spoken announcements: a response is rendered, the effects
\* of that render run, the clock advances, the component unmounts.
NextSpeech ==
  \/ Mount
  \/ \E call \in BagToSet(inflight), r \in DOMAIN FeedResponses :
       FetchSuccessRendered(call, r)
  \/ PassiveEffects
  \/ AdvanceTime
  \/ Unmount

SpecSpeech == Init /\ [][NextSpeech]_vars

\* One call of isEthiopiaLocation (line 564 calls it for each feature).
ClassifyCall ==
  /\ cPc = "call"
  /\ cResult' = isEthiopiaLocation(cPlace)
  /\ cReturn' = returnReached(cPlace)
  /\ cPc' = "returned"
  /\ UNCHANGED <<cPlace, compvars, invoked>>

\* The filter of line 560 moves to the next feature's place.
ClassifyNext ==
  /\ cPc = "returned"
  /\ cPlace' \in PlaceInputs
  /\ cPc' = "call"
  /\ UNCHANGED <<cResult, cReturn, compvars, invoked>>

NextClassify == ClassifyCall \/ ClassifyNext

InitClassify == MainInit /\ ClassifyInit /\ invoked = NotInvoked

SpecClassify == InitClassify /\ [][NextClassify]_vars

\* ------------------------------------------------------ filter calls

\* The last day a date input of the model is set to.
MaxDay == 3

\* The values of a date input (lines 1031, 1042): '' or a date.
DateInputs == {None} \cup {Some(d) : d \in Date2000..MaxDay}

\* The values of the magnitude input (line 1054), in tenths.
MinMagInputs == {0, 30, 45, 46}

\* The record stores the filter is run on: what the responses of the feed
\* leave in the store.
StoreInputs ==
  {ValidFeaturesOf[r] : r \in DOMAIN FeedResponses}
    \cup {ValidFeatures(<<FeatMidnight, FeatD, FeatZeroMag, FeatB, FeatYesterday,
                          FeatA>>),
          ValidFeatures(<<FeatB, FeatYesterday, FeatMidnight>>)}

\* A run of the filter effect about to start.
FilterInputs ==
  [fn : {"filter"}, pc : {"call"}, store : StoreInputs, startD : DateInputs,
   endD : DateInputs, minM : MinMagInputs, filtered : {<<>>},
   storeAfter : {<<>>}, again : {<<>>}, mag : {None}, magText : {<<>>}]

FilterInit == invoked \in FilterInputs

\* One run of the filter effect (lines 672-703): filtered is the list handed
\* to setFilteredEarthquakes, storeAfter is earthquakes after the run.
FilterCall ==
  /\ invoked.pc = "call"
  /\ LET run == applyFilters(invoked.store, invoked.startD, invoked.endD,
                             invoked.minM)
     IN  invoked' = [invoked EXCEPT !.filtered = run.filtered,
                                    !.storeAfter = run.earthquakes,
                                    !.pc = "filtered"]
  /\ UNCHANGED <<compvars, cvars>>

\* The same criteria applied to the list the effect produced.
FilterAgain ==
  /\ invoked.pc = "filtered"
  /\ invoked' =
       [invoked EXCEPT
          !.again = applyFilters(invoked.filtered, invoked.startD,
                                 invoked.endD, invoked.minM).filtered,
          !.pc = "refiltered"]
  /\ UNCHANGED <<compvars, cvars>>

\* formatMagnitude called on a magnitude of the store (line 1228).
FormatMagnitudeCall ==
  /\ invoked.pc = "refiltered"
  /\ \E mag \in {None} \cup {invoked.store[i].properties[1].mag :
                                 i \in DOMAIN invoked.store} :
       invoked' = [invoked EXCEPT !.mag = mag,
                                  !.magText = formatMagnitude(mag),
                                  !.pc = "formatted"]
  /\ UNCHANGED <<compvars, cvars>>

\* The store or a criterion changes: the effect is due again.
FilterNext ==
  /\ invoked.pc = "formatted"
  /\ invoked' \in FilterInputs
  /\ UNCHANGED <<compvars, cvars>>

NextFilter == FilterCall \/ FilterAgain \/ FormatMagnitudeCall \/ FilterNext

InitFilter == MainInit /\ ClassifyIdle /\ FilterInit

SpecFilter == InitFilter /\ [][NextFilter]_vars

\* ------------------------------------------------------------ serializers

\* A document is a sequence of pieces: a literal of the code's templates is
\* one piece, data is one piece per character.

\* new Date(t).toISOString(): day, 'T', time of day, 'Z'.
toISOString(t) == NatText(ISODate(t)) \o <<"T">> \o NatText(t % DayMs) \o <<"Z">>

\* new Date(t).toLocaleString(): date and time of day, joined by ", " in
\* en-US ("1/5/2024, 3:04:05 PM") and by " " in sv-SE ("2024-01-05 15:04:05").
toLocaleString(t, locale) ==
  NatText(ISODate(t))
    \o (IF locale = "en-US" THEN <<",", " ">> ELSE <<" ">>)
    \o NatText(t % DayMs)

\* Array.prototype.join: the texts with the separator between them.
RECURSIVE join(_, _)
join(texts, sep) ==
  IF Len(texts) = 0 THEN <<>>
  ELSE IF Len(texts) = 1 THEN texts[1]
  ELSE texts[1] \o sep \o join(Tail(texts), sep)

\* The header fields of lines 735-744.
headers ==
  << <<"Earthquake ID">>, <<"Location/Place">>, <<"Magnitude">>,
     <<"Date & Time">>, <<"Longitude">>, <<"Latitude">>, <<"Depth (km)">>,
     <<"USGS URL">> >>

\* eq.properties?.place || 'Unknown location' (lines 457, 749).
placeOrUnknown(eq) ==
  IF eq.properties = None \/ IsFalsy(eq.properties[1].place)
  THEN <<"Unknown location">>
  ELSE eq.properties[1].place

\* eq.properties?.url || '' (lines 459, 762).
urlOrEmpty(eq) ==
  IF eq.properties = None \/ eq.properties[1].url = None
  THEN <<>>
  ELSE eq.properties[1].url[1]

\* A place written as it is, comma or not.
escapePlaceNever(place) == place

\* escapedPlace (line 751): a place with a comma is wrapped in double quotes.
escapePlace(place) ==
  IF includes(place, <<",">>) THEN <<"\"">> \o place \o <<"\"">> ELSE place

\* The callback of filteredEarthquakes.map (lines 747-764).
csvRow(eq, locale) ==
  LET coords == eq.geometry[1].coordinates
      props == eq.properties[1]
  IN  join(<< IF eq.id = "" THEN <<>> ELSE <<eq.id>>,
              escapePlace(placeOrUnknown(eq)),
              IF props.mag # None THEN toFixed(props.mag[1], 2) ELSE <<>>,
              IF props.time # 0 THEN toLocaleString(props.time, locale) ELSE <<>>,
              IF coords[1] # None THEN toFixed(coords[1][1], 6) ELSE <<>>,
              IF coords[2] # None THEN toFixed(coords[2][1], 6) ELSE <<>>,
              IF coords[3] # None THEN toFixed(coords[3][1], 2) ELSE <<>>,
              urlOrEmpty(eq) >>,
           <<",">>)

\* downloadCSV (lines 728-769) up to the Blob: the alert of line 730 and no
\* document for an empty list, else the text of the Blob.
downloadCSV(list, locale) ==
  IF Len(list) = 0
  THEN [alert |-> "No earthquakes to download for the selected filters.",
        document |-> None]
  ELSE [alert |-> "",
        document |->
          Some(<<"BOM">>
                 \o join(<<join(headers, <<",">>)>>
                           \o [i \in DOMAIN list |-> csvRow(list[i], locale)],
                         <<"\n">>))]

\* ${x} of a template literal for a number of the feed or null.
interpolated(x) == IF x = None THEN Null ELSE NumberText(x[1])

\* A coordinates text that carries the depth as its third value.
pointCoordinatesWithDepth(coords) ==
  interpolated(coords[1]) \o <<",">> \o interpolated(coords[2]) \o <<",">>
    \o interpolated(coords[3])

\* ${lon},${lat},0 (line 477).
pointCoordinates(coords) ==
  interpolated(coords[1]) \o <<",">> \o interpolated(coords[2]) \o <<",0">>

\* The text the forEach callback of generateKML appends (lines 454-490).
placemark(eq, locale) ==
  LET coords == eq.geometry[1].coordinates
      depth == coords[3]
      props == eq.properties
      mag == IF props = None \/ props[1].mag = None
             THEN <<"Unknown">> ELSE toFixed(props[1].mag[1], 1)
      place == placeOrUnknown(eq)
      hasTime == props # None /\ props[1].time # 0
      time == IF hasTime THEN toISOString(props[1].time) ELSE <<"Unknown">>
      shownTime == IF hasTime THEN toLocaleString(props[1].time, locale)
                   ELSE <<"Invalid Date">>
      depthText == IF depth = None THEN Undefined ELSE toFixed(depth[1], 1)
      url == urlOrEmpty(eq)
  IN  <<"<Placemark>", "<name>", "M">> \o mag \o <<" - ">> \o place
        \o <<"</name>", "<description>", "<h3>Earthquake: M">> \o mag
        \o <<"</h3>", "<p><b>Location:</b> ">> \o place
        \o <<"</p>", "<p><b>Time:</b> ">> \o shownTime
        \o <<"</p>", "<p><b>Depth:</b> ">> \o depthText
        \o <<" km</p>", "<p><b>Magnitude:</b> ">> \o mag
        \o <<"</p>", "<p><a href=\"">> \o url
        \o <<"\" target=\"_blank\">View on USGS</a></p>", "</description>",
             "<styleUrl>#earthquakeStyle</styleUrl>", "<Point>",
             "<coordinates>">>
        \o pointCoordinates(coords)
        \o <<"</coordinates>", "</Point>", "<ExtendedData>",
             "<Data name=\"magnitude\">", "<value>">> \o mag
        \o <<"</value>", "</Data>", "<Data name=\"depth\">", "<value>">>
        \o depthText
        \o <<"</value>", "</Data>", "<Data name=\"time\">", "<value>">> \o time
        \o <<"</value>", "</Data>", "</ExtendedData>", "</Placemark>">>

\* generateKML (lines 437-499).
generateKML(list, locale) ==
  <<"<?xml?>", "<kml>", "<Document>", "<name>Ethiopia Earthquakes</name>",
    "<Style id=\"earthquakeStyle\"/>">>
    \o join([i \in DOMAIN list |-> placemark(list[i], locale)], <<>>)
    \o <<"</Document>", "</kml>">>

\* The locales the page is shown in.
LocaleInputs == {"en-US", "sv-SE"}

\* The stores whose filtered lists are exported.
ExportStores ==
  StoreInputs
    \cup {ValidFeatures(<<FeatNoDepth, FeatA, FeatNoUrl, FeatC>>),
          ValidFeatures(<<FeatD, FeatNoDepthNoUrl, FeatNoDepth>>),
          ValidFeatures(<<FeatNoUrl>>)}

\* filteredEarthquakes as the export handlers read it: a store filtered under
\* some criteria.
ExportInputs ==
  {applyFilters(store, startD, endD, minM).filtered :
     store \in ExportStores, startD \in DateInputs, endD \in DateInputs,
     minM \in MinMagInputs}

\* downloadCSV and generateKML about to run on a filtered list.
SerializeInputs ==
  [fn : {"serialize"}, pc : {"call"}, list : ExportInputs,
   locale : LocaleInputs, csv : {NoCsv}, kml : {<<>>}]

SerializeInit == invoked \in SerializeInputs

\* A click on the CSV button (line 1093): csv is the alert and the document
\* of downloadCSV.
CsvCall ==
  /\ invoked.pc = "call"
  /\ invoked' = [invoked EXCEPT !.csv = downloadCSV(invoked.list, invoked.locale),
                                 !.pc = "csv"]
  /\ UNCHANGED <<compvars, cvars>>

\* generateKML called on the list (line 789): kml is the text it returns.
KmlCall ==
  /\ invoked.pc = "csv"
  /\ invoked' = [invoked EXCEPT !.kml = generateKML(invoked.list, invoked.locale),
                                 !.pc = "kml"]
  /\ UNCHANGED <<compvars, cvars>>

\* The filtered list changes before the next export.
SerializeNext ==
  /\ invoked.pc = "kml"
  /\ invoked' \in SerializeInputs
  /\ UNCHANGED <<compvars, cvars>>

NextSerialize == CsvCall \/ KmlCall \/ SerializeNext

InitSerialize == MainInit /\ ClassifyIdle /\ SerializeInit

SpecSerialize == InitSerialize /\ [][NextSerialize]_vars

\* ------------------------------------------------------------ alerts

\* s.split(sep)[0]: the text before the first occurrence of sep.
splitFirst(s, sep) ==
  IF indexOf(s, sep) = 0 THEN s ELSE SubSeq(s, 1, indexOf(s, sep) - 1)

\* String.prototype.trim on texts whose only white space is the blank.
trim(s) ==
  LET inked == {i \in DOMAIN s : s[i] # " "}
  IN  IF inked = {} THEN <<>>
      ELSE SubSeq(s, CHOOSE i \in inked : \A j \in inked : i <= j,
                     CHOOSE i \in inked : \A j \in inked : i >= j)

\* placeName of the headline alert (lines 627-635).
placeName(place) ==
  LET afterOf == IF includes(place, OfSep) THEN splitSecond(place, OfSep)
                 ELSE place
  IN  IF includes(afterOf, <<",">>) THEN splitFirst(afterOf, <<",">>)
      ELSE afterOf

\* locationName of the voice alert (lines 594-610).
locationName(place) ==
  LET afterOf == IF includes(place, OfSep) THEN splitSecond(place, OfSep)
                 ELSE place
      beforeComma == IF includes(afterOf, <<",">>)
                     THEN splitFirst(afterOf, <<",">>) ELSE afterOf
  IN  trim(beforeComma)

\* message (line 612).
spokenMessage(eq) ==
  LET mag == IF eq.properties = None \/ eq.properties[1].mag = None
             THEN <<"unknown">> ELSE toFixed(eq.properties[1].mag[1], 1)
  IN  <<"New earthquake detected. Magnitude ">> \o mag \o <<" at ">>
        \o locationName(placeOrUnknown(eq)) \o <<".">>

\* The text of the alert of line 638.
headlineAlert(latest, locale) ==
  LET mag == IF latest.properties = None \/ latest.properties[1].mag = None
             THEN Undefined ELSE toFixed(latest.properties[1].mag[1], 1)
  IN  <<"NEW EARTHQUAKE ALERT!", "Magnitude: ">> \o mag
        \o <<"Location: ">> \o placeName(placeOrUnknown(latest))
        \o <<"Time: ">> \o toLocaleString(latest.properties[1].time, locale)

\* The block of lines 579-639: the audio cue, one spoken message per new
\* record, one alert for the last one; nothing for an empty list.
dispatchAlerts(newEarthquakes, locale) ==
  IF Len(newEarthquakes) = 0 THEN NoAlerts
  ELSE [cue |-> TRUE,
        spoken |-> [k \in DOMAIN newEarthquakes |->
                      spokenMessage(newEarthquakes[k])],
        alerts |-> <<headlineAlert(newEarthquakes[Len(newEarthquakes)],
                                   locale)>>]

\* Places of records the feed delivers.
AlertPlaces ==
  << TownAddisAbaba \o SfxEthiopia,
     PfxNNEof \o TownMekelle,
     PfxNof \o TownGulfOfZula \o SfxEthiopia,
     PfxNear \o TownAwash,
     PfxNof \o TownJijiga \o SfxEthiopia,
     TownSomaliRegion >>

\* Magnitudes of records the feed delivers, in tenths; None for null.
AlertMags == {None, Some(0), Some(52)}

\* Records that pass the validity filter of lines 560-565 and are new.
AlertRecords ==
  {f \in {Feature(DigitChars[i], Coords3, StartTime - PollIntervalMs, m,
                  AlertPlaces[i]) : i \in DOMAIN AlertPlaces, m \in AlertMags} :
     IsValidFeature(f)}

\* newEarthquakes holds at most this many records.
MaxNovel == 2

\* The lists newEarthquakes takes.
NovelInputs ==
  UNION {[1..n -> AlertRecords] : n \in 0..MaxNovel}

\* The block of lines 579-639 about to run on a list of new records.
AlertInputs ==
  [fn : {"alerts"}, pc : {"call"}, novel : NovelInputs, locale : LocaleInputs,
   cue : {FALSE}, spoken : {<<>>}, alerts : {<<>>}, queued : {<<>>}]

AlertInit == invoked \in AlertInputs

\* One run of lines 579-639 on the list of line 572: cue tells whether
\* audioRef.current.play() was called, spoken holds the messages handed to
\* speechSynthesis.speak and alerts the texts handed to alert(), in order;
\* queued holds the messages speechSynthesis holds when the loop has ended.
DispatchCall ==
  /\ invoked.pc = "call"
  /\ LET run == dispatchAlerts(invoked.novel, invoked.locale)
     IN  invoked' = [invoked EXCEPT !.cue = run.cue,
                                    !.spoken = run.spoken,
                                    !.alerts = run.alerts,
                                    !.queued = speakEach(run.spoken,
                                                         invoked.queued),
                                    !.pc = "dispatched"]
  /\ UNCHANGED <<compvars, cvars>>

NextAlert == DispatchCall

InitAlert == MainInit /\ ClassifyIdle /\ AlertInit

SpecAlert == InitAlert /\ [][NextAlert]_vars

\* ------------------------------------------------------------ properties

\* The records a list keeps under a test, in list order.
Keep(s, Test(_)) ==
  LET kept == {i \in DOMAIN s : Test(s[i])}
  IN  [k \in 1..Cardinality(kept) |->
         s[CHOOSE i \in kept : Cardinality({j \in kept : j < i}) = k - 1]]

IdsInOrder(s) == [k \in DOMAIN s |-> s[k].id]

\* C1: no record id is alerted in more than one fetch cycle.
C1_NoIdAlertedTwice == alertedAgain = {}

\* C2: at every moment at most one fetch is in flight.
C2_AtMostOneInFlight == BagCardinality(inflight) <= 1

\* C3: every step leaves the announced set a superset of what it was.
C3_AnnouncedOnlyGrows ==
  [][announcedEarthquakeIds \subseteq announcedEarthquakeIds']_vars

\* A call runs in isolation: it is the only one in flight and no other cycle
\* has changed the novelty state since it started.
Isolated(call) ==
  /\ phase = "mounted"
  /\ BagCardinality(inflight) = 1
  /\ call.prev = previousEarthquakeIds
  /\ call.ann = announcedEarthquakeIds

\* The features of a response that have an id, a time, a 3-element coordinate
\* array and an in-region place, in response order.
Admitted(f) ==
  /\ f.id # ""
  /\ f.properties # None /\ f.properties[1].time # 0
  /\ f.geometry # None
  /\ f.geometry[1].coordinates # Null
  /\ Len(f.geometry[1].coordinates) = 3
  /\ isEthiopiaLocation(f.properties[1].place)

AdmittedOf ==
  [r \in DOMAIN FeedResponses |-> Keep(FeedResponses[r], Admitted)]

\* Every feature of the feed that is admitted.
AdmittedFeatures ==
  UNION {{AdmittedOf[r][j] : j \in DOMAIN AdmittedOf[r]} : r \in DOMAIN FeedResponses}

\* C4: a successful cycle run in isolation computes novel = the records of the
\* response, in order, whose id is neither in seenLastCycle nor in announced and
\* whose time is later than now - 1 h; then announced grows by exactly those
\* ids and seenLastCycle becomes exactly the ids of the records.
C4_IsolatedCycle ==
  [][\A call \in BagToSet(inflight), r \in DOMAIN FeedResponses :
       (Isolated(call) /\ out'.kind = "ok" /\ FetchSuccess(call, r))
       => LET records == AdmittedOf[r]
              IsNovel(f) == /\ f.id \notin previousEarthquakeIds
                            /\ f.id \notin announcedEarthquakeIds
                            /\ f.properties[1].time > now - OneHourMs
              novel == Keep(records, IsNovel)
          IN  /\ out'.kind = "ok"
              /\ out'.novel = IdsInOrder(novel)
              /\ announcedEarthquakeIds' = announcedEarthquakeIds \cup Ids(novel)
              /\ previousEarthquakeIds' = Ids(records)]_vars

\* C4 witness: the cycle of the example has run alone: D was the one novel
\* record of {A, B, D}.
C4_Witness ==
  /\ phase = "mounted"
  /\ BagCardinality(inflight) = 1
  /\ out.kind = "ok"
  /\ out.novel = <<"D">>
  /\ previousEarthquakeIds = {"A", "B", "D"}
  /\ announcedEarthquakeIds = {"D"}

\* C5: a failing fetch leaves the record store, seenLastCycle, announced and
\* the last-updated time as they were, requests no alert, leaves the loading
\* flag false, and leaves the polling timer armed for the next cycle.
C5_FailureLeavesState ==
  [][\A call \in BagToSet(inflight), kind \in FailureKinds :
       (out'.kind = "fail" /\ FetchFail(call, kind))
       => /\ earthquakes' = earthquakes
          /\ previousEarthquakeIds' = previousEarthquakeIds
          /\ announcedEarthquakeIds' = announcedEarthquakeIds
          /\ lastUpdated' = lastUpdated
          /\ out'.novel = <<>> /\ ~out'.cue /\ out'.spoken = <<>>
          /\ out'.headline = ""
          /\ speechQueue' = speechQueue
          /\ alerted' = alerted /\ alertedAgain' = alertedAgain
          /\ phase = "mounted" => (~isLoading' /\ timer' = timer /\ timer # None)]_vars

\* C5 witness: a fetch has failed over a non-empty store and novelty state.
C5_Witness ==
  /\ out.kind = "fail"
  /\ out.mounted
  /\ phase = "mounted"
  /\ ~isLoading
  /\ earthquakes # <<>>
  /\ announcedEarthquakeIds # {}

\* A step starts a fetch: some call has one more copy in flight than before.
StartsFetch ==
  \E call \in BagToSet(inflight') :
    CopiesIn(call, inflight') > CopiesIn(call, inflight)

\* C6: a fetch is started only by startup, a timer tick or a manual refresh.
C6_OnlyThreeTriggers ==
  [][StartsFetch => (Mount \/ TimerTick \/ BellClick)]_vars

\* C7: the result of a fetch that arrives after teardown triggers no audio cue,
\* no spoken announcement and no headline alert.
C7_DiscardedAfterTeardown ==
  (out.kind = "ok" /\ ~out.mounted)
    => (~out.cue /\ out.spoken = <<>> /\ out.headline = "")

\* C8: every stored record has an id, a time, a 3-element coordinate array and
\* an in-region place, and a successful fetch makes the store exactly the such
\* features of its response, in response order.
C8_StoreIsSnapshot ==
  /\ [](\A k \in DOMAIN earthquakes : earthquakes[k] \in AdmittedFeatures)
  /\ [][\A call \in BagToSet(inflight), r \in DOMAIN FeedResponses :
          (phase = "mounted" /\ out'.kind = "ok" /\ FetchSuccess(call, r))
          => earthquakes' = AdmittedOf[r]]_vars

\* C8 witness: the store holds E, D, A of a response that also carried
\* malformed and out-of-region features.
C8_Witness ==
  /\ out.kind = "ok"
  /\ earthquakes = <<FeatE, FeatD, FeatA>>

\* C9: isEthiopiaLocation returns true, through the "of " pass, for
\* "<distance> <direction> of Mekele".
C9_MekeleInRegion ==
  (cPc = "returned" /\ cPlace \in {p \o TownMekele : p \in DirectionalPrefixes})
    => (cResult = TRUE /\ cReturn = "of")

\* C10: isEthiopiaLocation returns a boolean: true for "Addis Ababa, Ethiopia",
\* false for "Red Sea, Yemen", "Khartoum, Sudan", "", undefined and null.
C10_Examples ==
  cPc = "returned"
    => /\ cResult \in BOOLEAN
       /\ cPlace = TownAddisAbaba \o SfxEthiopia => cResult = TRUE
       /\ cPlace \in {TownRedSea \o SfxYemen, TownKhartoum \o SfxSudan,
                      <<>>, Undefined, Null} => cResult = FALSE

\* C10 witness: the call on "Addis Ababa, Ethiopia" has returned true.
C10_Witness ==
  /\ cPc = "returned"
  /\ cPlace = TownAddisAbaba \o SfxEthiopia
  /\ cResult = TRUE

\* C17: exclusion takes precedence in isEthiopiaLocation: a text that holds a
\* keyword of the exclusion list and not 'ethiopia' gives false, also when it
\* holds inclusion keywords; a text that holds 'ethiopia' is never made false
\* by an exclusion keyword.
C17_ExclusionPrecedence ==
  (cPc = "returned" /\ ~IsFalsy(cPlace))
    => LET text == toLowerCase(cPlace)
           excluded ==
             \E i \in DOMAIN excludeCountries : includes(text, excludeCountries[i])
       IN  /\ (excluded /\ ~includes(text, EthiopiaName)) => cResult = FALSE
           /\ includes(text, EthiopiaName)
                => (cReturn # "exclusion" /\ cResult = TRUE)

\* C17 witness: the call on "Afar-Djibouti border, Somalia", which holds the
\* inclusion keywords 'afar' and 'somali', has returned false.
C17_Witness ==
  /\ cPc = "returned"
  /\ cPlace = TownAfarDjiboutiBorder \o SfxSomalia
  /\ cReturn = "exclusion"
  /\ cResult = FALSE

\* C17, second case: the call on "Afar-Djibouti border, Ethiopia" has
\* returned true although the text holds 'djibouti'.
C17_WitnessEthiopia ==
  /\ cPc = "returned"
  /\ cPlace = TownAfarDjiboutiBorder \o SfxEthiopia
  /\ cResult = TRUE

\* The filter effect has run on the current inputs.
FilterHasRun == invoked.pc \in {"filtered", "refiltered", "formatted"}

\* The inclusion rule on one record of the store: times and dates compared as
\* instants, a date being the instant new Date(date) gives.
Included(f) ==
  /\ f.properties[1].time # 0
  /\ f.properties[1].mag # None
  /\ invoked.startD = None \/ f.properties[1].time >= DateOf(invoked.startD[1])
  /\ invoked.endD = None \/ f.properties[1].time <= DateOf(invoked.endD[1])
  /\ f.properties[1].mag[1] >= invoked.minM

\* C11: the filtered list is exactly the records of the store, in store
\* order, with a non-null time and a non-null magnitude, a time within the
\* set bounds and a magnitude of at least minMag; a record of null magnitude
\* is never in it, and formatMagnitude(null) is "N/A".
C11_FilteredList ==
  /\ FilterHasRun
       => /\ invoked.filtered = Keep(invoked.store, Included)
          /\ \A k \in DOMAIN invoked.filtered : invoked.filtered[k].properties[1].mag # None
  /\ (invoked.pc = "formatted" /\ invoked.mag = None) => invoked.magText = <<"N", "/", "A">>

\* C11 witness: a store with a record of null magnitude was filtered under
\* both date bounds, some records passed and some did not, and
\* formatMagnitude was called on null.
C11_Witness ==
  /\ invoked.pc = "formatted"
  /\ invoked.mag = None
  /\ invoked.startD # None
  /\ invoked.endD # None
  /\ \E i \in DOMAIN invoked.store : invoked.store[i].properties[1].mag = None
  /\ invoked.filtered # <<>>
  /\ Len(invoked.filtered) + 1 < Len(invoked.store)

\* C12: filtering the filtered list again under the same criteria returns it
\* unchanged, and the store holds the same records in the same order after
\* the filter has run as before.
C12_IdempotentNoMutation ==
  /\ invoked.pc \in {"refiltered", "formatted"} => invoked.again = invoked.filtered
  /\ FilterHasRun => invoked.storeAfter = invoked.store

\* C12 witness: a filter run that dropped records has been repeated on its
\* own result.
C12_Witness ==
  /\ invoked.pc = "refiltered"
  /\ invoked.filtered # <<>>
  /\ Len(invoked.filtered) < Len(invoked.store)
  /\ invoked.again = invoked.filtered
  /\ invoked.storeAfter = invoked.store

\* C18: the end date is inclusive at day granularity: a record of the store
\* whose time is any instant of the day endDate names, and which passes the
\* other tests, is in the filtered list (so, under the default criteria,
\* every record of today with a non-null, non-negative magnitude).
C18_EndDayInclusive ==
  (FilterHasRun /\ invoked.endD # None)
    => \A i \in DOMAIN invoked.store :
         LET props == invoked.store[i].properties[1]
         IN  (/\ ISODate(props.time) = invoked.endD[1]
              /\ props.mag # None
              /\ props.mag[1] >= invoked.minM
              /\ invoked.startD = None \/ props.time >= DateOf(invoked.startD[1]))
               => \E k \in DOMAIN invoked.filtered : invoked.filtered[k] = invoked.store[i]

\* The default criteria of lines 539-541 on the day the component is built.
DefaultCriteria ==
  /\ invoked.startD = Some(Date2000)
  /\ invoked.endD = Some(ISODate(StartTime))
  /\ invoked.minM = 0

\* C18 under the default criteria only: a record of today with a magnitude
\* of 0 or more is in the filtered list.
C18_TodayUnderDefaults ==
  (FilterHasRun /\ DefaultCriteria)
    => \A i \in DOMAIN invoked.store :
         LET props == invoked.store[i].properties[1]
         IN  (/\ ISODate(props.time) = ISODate(StartTime)
              /\ props.mag # None
              /\ props.mag[1] >= 0)
               => \E k \in DOMAIN invoked.filtered : invoked.filtered[k] = invoked.store[i]

\* The positions of a piece in a document.
PositionsOf(doc, piece) == {i \in DOMAIN doc : doc[i] = piece}

\* The k-th smallest member of a set of positions.
Nth(S, k) == CHOOSE i \in S : Cardinality({j \in S : j < i}) = k - 1

\* What String.prototype.split(sep) returns for a one-piece separator.
Split(doc, sep) ==
  LET seps == PositionsOf(doc, sep)
      n == Cardinality(seps)
  IN  [k \in 1..(n + 1) |->
         SubSeq(doc,
                IF k = 1 THEN 1 ELSE Nth(seps, k - 1) + 1,
                IF k = n + 1 THEN Len(doc) ELSE Nth(seps, k) - 1)]

\* The text between the k-th occurrence of the piece open and the first
\* piece close after it.
Slot(doc, open, close, k) ==
  LET a == Nth(PositionsOf(doc, open), k)
      b == CHOOSE j \in PositionsOf(doc, close) :
             j > a /\ \A l \in PositionsOf(doc, close) : l > a => j <= l
  IN  SubSeq(doc, a + 1, b - 1)

StartsWith(text, prefix) ==
  Len(text) >= Len(prefix) /\ SubSeq(text, 1, Len(prefix)) = prefix

CsvDone == invoked.pc \in {"csv", "kml"}

\* The document downloadCSV produced has one header line and then one line per
\* record of the list, in order, and a place with a comma stands in double
\* quotes.
CsvLinesMatch ==
  /\ invoked.csv.document # None
  /\ LET lines == Split(invoked.csv.document[1], "\n")
     IN  /\ Len(lines) = Len(invoked.list) + 1
         /\ lines[1] = <<"BOM">> \o join(headers, <<",">>)
         /\ \A i \in DOMAIN invoked.list :
              LET place == invoked.list[i].properties[1].place
              IN  IF includes(place, <<",">>)
                  THEN StartsWith(lines[i + 1],
                                  <<invoked.list[i].id, ",", "\"">> \o place
                                    \o <<"\"", ",">>)
                  ELSE StartsWith(lines[i + 1], <<invoked.list[i].id, ",">>)

\* C13: for every filtered list of N records downloadCSV produces a document
\* of exactly N+1 lines, the header and one line per record in filtered
\* order, and a place that contains a comma is wrapped in double quotes.
C13_LinesPerRecord == CsvDone => CsvLinesMatch

\* C13 amended: for a filtered list of N >= 1 records the document has
\* exactly N+1 lines, the header and one line per record in order, a place
\* with a comma in double quotes; for an empty filtered list downloadCSV
\* produces no document and raises the "No earthquakes to download" alert.
C13_LinesPerRecordNonEmpty ==
  CsvDone
    => IF invoked.list # <<>>
       THEN CsvLinesMatch /\ invoked.csv.alert = ""
       ELSE /\ invoked.csv.document = None
            /\ invoked.csv.alert = "No earthquakes to download for the selected filters."

\* C13 witness: a list with a place that holds a comma and a place that
\* holds none has been written as CSV.
C13_Witness ==
  /\ invoked.pc = "csv"
  /\ invoked.csv.document # None
  /\ \E i, j \in DOMAIN invoked.list :
       /\ includes(invoked.list[i].properties[1].place, <<",">>)
       /\ ~includes(invoked.list[j].properties[1].place, <<",">>)

\* C14: generateKML emits exactly one Placemark per record of its list, in
\* list order, the i-th named after the i-th record, and its Point
\* coordinates are the record's longitude and latitude and then 0, never the
\* record's depth.
C14_PlacemarkPerRecord ==
  invoked.pc = "kml"
    => /\ Cardinality(PositionsOf(invoked.kml, "<Placemark>")) = Len(invoked.list)
       /\ Cardinality(PositionsOf(invoked.kml, "</Placemark>")) = Len(invoked.list)
       /\ \A i \in DOMAIN invoked.list :
            LET coords == invoked.list[i].geometry[1].coordinates
                props == invoked.list[i].properties[1]
            IN  /\ Slot(invoked.kml, "<name>", "</name>", i)
                     = <<"M">> \o toFixed(props.mag[1], 1) \o <<" - ">>
                         \o props.place
                /\ Slot(invoked.kml, "<coordinates>", "</coordinates>", i)
                     = NumberText(coords[1][1]) \o <<",">>
                         \o NumberText(coords[2][1]) \o <<",0">>

\* C14 witness: a list of two or more records, one of them with a depth,
\* has been written as KML.
C14_Witness ==
  /\ invoked.pc = "kml"
  /\ Len(invoked.list) >= 2
  /\ \E i \in DOMAIN invoked.list : invoked.list[i].geometry[1].coordinates[3] # None
  /\ Cardinality(PositionsOf(invoked.kml, "<Placemark>")) = Len(invoked.list)

\* The empty string or an "Unknown" sentinel.
IsSentinel(text) ==
  text \in {<<>>, <<"Unknown">>, <<"Unknown location">>}

\* C15: for a record whose depth or url is absent both serializers complete,
\* and every position of the CSV and of the KML the absent field feeds holds
\* the empty string or an "Unknown" sentinel.
C15_AbsentFieldsSentinel ==
  (invoked.pc = "kml" /\ invoked.list # <<>>)
    => /\ invoked.csv.document # None
       /\ \A i \in DOMAIN invoked.list :
            LET coords == invoked.list[i].geometry[1].coordinates
                props == invoked.list[i].properties[1]
                fields == Split(Split(invoked.csv.document[1], "\n")[i + 1], ",")
                data == Slot(invoked.kml, "<Data name=\"depth\">", "</Data>", i)
            IN  /\ coords[3] = None
                     => /\ IsSentinel(fields[Len(fields) - 1])
                        /\ IsSentinel(Slot(invoked.kml, "<p><b>Depth:</b> ",
                                            " km</p>", i))
                        /\ IsSentinel(SubSeq(data, 2, Len(data) - 1))
                /\ props.url = None
                     => /\ IsSentinel(fields[Len(fields)])
                        /\ IsSentinel(Slot(invoked.kml, "<p><a href=\"",
                               "\" target=\"_blank\">View on USGS</a></p>", i))

\* C15 for the CSV alone: the fields of an absent depth and an absent url are
\* empty.
C15_CsvAbsentFieldsEmpty ==
  (invoked.pc = "kml" /\ invoked.list # <<>>)
    => \A i \in DOMAIN invoked.list :
         LET fields == Split(Split(invoked.csv.document[1], "\n")[i + 1], ",")
         IN  /\ invoked.list[i].geometry[1].coordinates[3] = None
                  => fields[Len(fields) - 1] = <<>>
             /\ invoked.list[i].properties[1].url = None => fields[Len(fields)] = <<>>

\* C16: a failure of the KMZ archive construction is reported by the export
\* handler alone (console message and alert of lines 801-802; the fetch cycle
\* reports nothing), saves no file, leaves the store, the filtered list, the
\* criteria and the novelty sets as they were, and leaves the downloading
\* flag false with no export pending, so that the KMZ button works again.
C16_KmzFailureContained ==
  [][(exported'.kind = "failed" /\ (KMZFail \/ DownloadKMZThrows))
       => /\ exported'.alert = "Error creating KMZ file. Please try again."
          /\ exported'.console = "Error creating KMZ:"
          /\ exported'.file = None
          /\ out' = out
          /\ UNCHANGED <<earthquakes, filteredEarthquakes, startDate, endDate,
                         minMag, previousEarthquakeIds, announcedEarthquakeIds>>
          /\ isDownloading' = FALSE
          /\ kmzPending' = None]_vars

\* C16 witness: an export of a non-empty filtered list has failed while the
\* last fetch cycle had succeeded, and the flag is false.
C16_Witness ==
  /\ exported.kind = "failed"
  /\ filteredEarthquakes # <<>>
  /\ out.kind = "ok"
  /\ ~isDownloading
  /\ kmzPending = None

\* C16, afterwards: the next KMZ export has been started after a failed one.
C16_WitnessNextExport ==
  /\ exported.kind = "failed"
  /\ isDownloading
  /\ kmzPending # None

\* The spoken location name as the text after the first "of " (all of it),
\* cut at the first comma and trimmed; without "of ", the place cut at the
\* first comma and trimmed.
NameAfterFirstOf(place) ==
  LET at == indexOf(place, OfSep)
      rest == IF at = 0 THEN place
              ELSE SubSeq(place, at + Len(OfSep), Len(place))
  IN  trim(splitFirst(rest, <<",">>))

\* The location a spoken message names: the text between " at " and the
\* closing full stop.
SpokenLocation(message) ==
  LET at == CHOOSE i \in DOMAIN message : message[i] = " at "
  IN  SubSeq(message, at + 1, Len(message) - 1)

\* C19: the location name spoken for a new record is the text of its place
\* after the first "of ", the whole remainder also when "of " occurs again,
\* cut at the first comma and trimmed, and without "of " the place cut at
\* the first comma and trimmed.
C19_SpokenLocationName ==
  invoked.pc = "dispatched"
    => /\ Len(invoked.spoken) = Len(invoked.novel)
       /\ \A k \in DOMAIN invoked.novel :
            SpokenLocation(invoked.spoken[k])
              = NameAfterFirstOf(invoked.novel[k].properties[1].place)

\* C19 for places with at most one "of ": there the spoken name is the text
\* after "of ", cut at the first comma and trimmed.
C19_SingleOf ==
  invoked.pc = "dispatched"
    => \A k \in DOMAIN invoked.novel :
         LET place == invoked.novel[k].properties[1].place
             at == indexOf(place, OfSep)
             rest == SubSeq(place, at + Len(OfSep), Len(place))
         IN  (at = 0 \/ ~includes(rest, OfSep))
               => SpokenLocation(invoked.spoken[k]) = NameAfterFirstOf(place)

\* The texts a null magnitude may be shown as.
UnknownMagnitude == {<<"unknown">>, <<"Unknown">>, <<"N/A">>}

\* C20: a cycle with new records requests exactly one headline alert, for
\* the last new record, with that record's full place, its time and its
\* magnitude, an unknown sentinel standing for a null magnitude; a cycle
\* without new records requests none.
C20_HeadlineAlert ==
  invoked.pc = "dispatched"
    => IF invoked.novel = <<>> THEN invoked.alerts = <<>>
       ELSE /\ Len(invoked.alerts) = 1
            /\ LET props == invoked.novel[Len(invoked.novel)].properties[1]
                    text == invoked.alerts[1]
                    shownMag == Slot(text, "Magnitude: ", "Location: ", 1)
                    shownPlace == Slot(text, "Location: ", "Time: ", 1)
                    shownTime ==
                      SubSeq(text, Nth(PositionsOf(text, "Time: "), 1) + 1,
                             Len(text))
                IN  /\ shownPlace = props.place
                    /\ shownTime = toLocaleString(props.time, invoked.locale)
                    /\ IF props.mag = None THEN shownMag \in UnknownMagnitude
                       ELSE shownMag = toFixed(props.mag[1], 1)

\* C20 without the place and the null magnitude: one headline alert for the
\* last new record, with its time and its non-null magnitude, and none for
\* an empty list.
C20_OneAlertForLast ==
  invoked.pc = "dispatched"
    => IF invoked.novel = <<>> THEN invoked.alerts = <<>>
       ELSE /\ Len(invoked.alerts) = 1
            /\ LET props == invoked.novel[Len(invoked.novel)].properties[1]
                    text == invoked.alerts[1]
                IN  /\ SubSeq(text, Nth(PositionsOf(text, "Time: "), 1) + 1,
                              Len(text))
                         = toLocaleString(props.time, invoked.locale)
                    /\ props.mag # None
                         => Slot(text, "Magnitude: ", "Location: ", 1)
                              = toFixed(props.mag[1], 1)

\* C21: in every fetch cycle the audio cue is requested exactly once when the
\* novel list is non-empty, whatever its length, and not at all when the novel
\* list is empty or the fetch failed.
C21_OneCuePerCycle ==
  /\ out.kind = "ok" => out.plays = (IF Len(out.novel) > 0 THEN 1 ELSE 0)
  /\ out.kind = "fail" => out.plays = 0

\* The same for the cycles that end while the component is mounted; a cycle
\* that ends after the unmount requests no cue.
C21_OneCuePerMountedCycle ==
  /\ (out.kind = "ok" /\ out.mounted)
       => out.plays = (IF Len(out.novel) > 0 THEN 1 ELSE 0)
  /\ (out.kind = "ok" /\ ~out.mounted) => out.plays = 0
  /\ out.kind = "fail" => out.plays = 0
  /\ out.cue <=> out.plays > 0

\* A mounted cycle with two novel records has requested one cue.
C21_TwoNovelOneCue ==
  /\ out.kind = "ok"
  /\ out.mounted
  /\ Len(out.novel) = 2
  /\ out.plays = 1

\* The list the filter gives for the store and the criteria of the page.
FilterOfStore ==
  applyFilters(earthquakes, startDate, endDate, minMag).filtered

\* C22: every exported file is named with the start and end date of the
\* criteria of the moment of the export and holds exactly the records the
\* filter gives for the store and those criteria: a CSV file when the button
\* is clicked, a KMZ file from what downloadKMZ read when it was clicked.
C22_ExportMatchesCriteria ==
  /\ [][(exported'.kind = "csv" /\ DownloadCSV)
          => exported'.file
               = Some(ExportFile("csv", FilterOfStore, startDate, endDate))]_vars
  /\ [][(kmzPending' # None /\ DownloadKMZ)
          => kmzPending' = Some([records |-> FilterOfStore,
                                 startDate |-> startDate,
                                 endDate |-> endDate])]_vars
  /\ [][(exported'.kind = "kmz" /\ KMZSaved)
          => exported'.file
               = Some(ExportFile("kmz", kmzPending[1].records,
                                 kmzPending[1].startDate,
                                 kmzPending[1].endDate))]_vars

\* Once the effects of the last render have run, the filtered list is the
\* filter of the store under the criteria of the page.
C22_FilteredOnceEffectsRan ==
  (phase = "mounted" /\ ~effectsPending) => filteredEarthquakes = FilterOfStore

\* A CSV file has been written from a filtered list that is not the filter
\* of the store.
C22_StaleExport ==
  /\ exported.kind = "csv"
  /\ effectsPending
  /\ exported.file[1].records # FilterOfStore
  /\ exported.file[1].name[2] = startDate
  /\ exported.file[1].name[4] = endDate

\* The fields of a CSV line: the line is cut at the commas that stand outside
\* double quotes, a comma being outside when an even number of double quotes
\* precedes it.
CsvFields(line) ==
  LET quotesBefore(i) == Cardinality({j \in PositionsOf(line, "\"") : j < i})
      cuts == {i \in PositionsOf(line, ",") : quotesBefore(i) % 2 = 0}
      n == Cardinality(cuts)
  IN  [k \in 1..(n + 1) |->
         SubSeq(line,
                IF k = 1 THEN 1 ELSE Nth(cuts, k - 1) + 1,
                IF k = n + 1 THEN Len(line) ELSE Nth(cuts, k) - 1)]

\* The number of digits after the decimal point of a number text.
Decimals(text) ==
  IF PositionsOf(text, ".") = {} THEN 0
  ELSE Len(text) - Nth(PositionsOf(text, "."), 1)

\* The i-th data row of the document has the 8 fields of the i-th record:
\* id, place, magnitude with 2 decimals, time, longitude and latitude with 6
\* decimals, depth with 2 decimals (empty without a depth), url.
CsvRowHasEightFields(i) ==
  LET eq == invoked.list[i]
      coords == eq.geometry[1].coordinates
      fields == CsvFields(Split(invoked.csv.document[1], "\n")[i + 1])
  IN  /\ Len(fields) = 8
      /\ fields[1] = <<eq.id>>
      /\ fields[2] \in {eq.properties[1].place,
                        <<"\"">> \o eq.properties[1].place \o <<"\"">>}
      /\ Decimals(fields[3]) = 2
      /\ fields[3] = toFixed(eq.properties[1].mag[1], 2)
      /\ fields[4] # <<>>
      /\ Decimals(fields[5]) = 6 /\ fields[5] = toFixed(coords[1][1], 6)
      /\ Decimals(fields[6]) = 6 /\ fields[6] = toFixed(coords[2][1], 6)
      /\ IF coords[3] = None THEN fields[7] = <<>>
         ELSE Decimals(fields[7]) = 2 /\ fields[7] = toFixed(coords[3][1], 2)
      /\ fields[8] = urlOrEmpty(eq)

\* C23: every data row of the CSV document splits into exactly 8 fields (id,
\* place, magnitude, time, longitude, latitude, depth, url) when it is cut at
\* the commas outside double quotes; magnitude and depth have 2 decimals,
\* longitude and latitude 6.
C23_EightFields ==
  (CsvDone /\ invoked.csv.document # None)
    => \A i \in DOMAIN invoked.list : CsvRowHasEightFields(i)

\* The same where toLocaleString writes no comma (sv-SE).
C23_EightFieldsWithoutLocaleComma ==
  (CsvDone /\ invoked.csv.document # None /\ invoked.locale = "sv-SE")
    => \A i \in DOMAIN invoked.list : CsvRowHasEightFields(i)

\* In en-US every data row has a ninth field: the time is cut in two.
C23_NineFieldsInEnUS ==
  (CsvDone /\ invoked.csv.document # None /\ invoked.locale = "en-US")
    => \A i \in DOMAIN invoked.list :
         Len(CsvFields(Split(invoked.csv.document[1], "\n")[i + 1])) = 9

\* The archive of a KMZ export is written from what downloadKMZ read when the
\* button was clicked: the filtered list and the dates of that render are kept
\* while zip.generateAsync is awaited, whatever is fetched or set meanwhile,
\* and the saved file is made of them.
C24_KmzSnapshot ==
  /\ [][(kmzPending' # None /\ DownloadKMZ)
          => kmzPending' = Some([records |-> filteredEarthquakes,
                                 startDate |-> startDate,
                                 endDate |-> endDate])]_vars
  /\ [][(kmzPending # None /\ kmzPending' # kmzPending)
          => (KMZSaved \/ KMZFail)]_vars
  /\ [][(exported'.kind = "kmz" /\ KMZSaved)
          => exported'.file
               = Some(ExportFile("kmz", kmzPending[1].records,
                                 kmzPending[1].startDate,
                                 kmzPending[1].endDate))]_vars

\* C24: an export runs on a snapshot.  A KMZ archive holds the filtered list
\* and carries the dates of the moment the export was started, also when a
\* fetch replaces the store while the archive is generated; a CSV export
\* started while a fetch is in flight holds exactly the filter of the store
\* of the last completed fetch.
C24_ExportOnSnapshot ==
  /\ C24_KmzSnapshot
  /\ [][(exported'.kind = "csv" /\ inflight # EmptyBag /\ DownloadCSV)
          => exported'.file
               = Some(ExportFile("csv", FilterOfStore, startDate, endDate))]_vars

\* A KMZ file has been saved after the store and the end date had changed
\* under the suspended export: its records and its name are the old ones.
C24_SavedAfterChange ==
  /\ exported.kind = "kmz"
  /\ exported.file[1].records # filteredEarthquakes
  /\ exported.file[1].name[4] # endDate
  /\ kmzPending = None

\* A CSV file has been written, with a fetch in flight, from the filtered
\* list of the store before the last completed fetch.
C24_CsvBehindLastFetch ==
  /\ exported.kind = "csv"
  /\ inflight # EmptyBag
  /\ effectsPending
  /\ exported.file[1].records # FilterOfStore

\* C25: when the loop of one dispatch over k >= 2 new records has ended, the
\* k messages handed to speechSynthesis.speak are all still held by it (none
\* can have been spoken to the end within the synchronous loop).
C25_AllAnnouncementsQueued ==
  (invoked.fn = "alerts" /\ invoked.pc = "dispatched"
     /\ Len(invoked.novel) >= 2)
    => invoked.queued = invoked.spoken

\* What the loop leaves instead: the message of the last new record only.
C25_OnlyLastQueued ==
  (invoked.fn = "alerts" /\ invoked.pc = "dispatched"
     /\ Len(invoked.novel) >= 1)
    => invoked.queued = <<invoked.spoken[Len(invoked.spoken)]>>

\* A dispatch over two new records has ended with one message held.
C25_EarlierCancelled ==
  /\ invoked.fn = "alerts" /\ invoked.pc = "dispatched"
  /\ Len(invoked.novel) = 2
  /\ Len(invoked.spoken) = 2
  /\ Len(invoked.queued) = 1

\* C26: a step that empties the utterances speechSynthesis holds (a cancel()
\* outside the loop of lines 590-624, whose every cancel() is followed by a
\* speak()) is the teardown of the component.
C26_CancelledOnlyByTeardown ==
  [][(speechQueue # <<>> /\ speechQueue' = <<>>)
       => (phase = "mounted" /\ phase' = "unmounted")]_vars

\* What the code does: the queue is emptied by the teardown or by the effects
\* of the render that completes the cycle.
C26_CancelledByCleanup ==
  [][(speechQueue # <<>> /\ speechQueue' = <<>>)
       => \/ phase = "mounted" /\ phase' = "unmounted"
          \/ effectsPending /\ ~effectsPending']_vars

\* The announcement of the last completed cycle is held while the effects of
\* its render have not run.
C26_PendingAnnouncement ==
  /\ phase = "mounted"
  /\ effectsPending
  /\ out.kind = "ok" /\ Len(out.spoken) > 0
  /\ speechQueue = <<out.spoken[Len(out.spoken)]>>

\* C27: while the component is mounted, isLoading is true exactly when a
\* fetch has been started and has not ended yet.
C27_LoadingMirrorsFetches ==
  phase = "mounted" => (isLoading <=> BagCardinality(inflight) > 0)

\* What the flag is: the last of setIsLoading(true) (line 553) and
\* setIsLoading(false) (line 655), so it is never true without a fetch.
C27_LoadingImpliesFetch ==
  (phase = "mounted" /\ isLoading) => BagCardinality(inflight) > 0

\* One of two overlapping fetches has ended and the flag is down while the
\* other is still in flight.
C27_IdleWhileFetching ==
  /\ phase = "mounted"
  /\ ~isLoading
  /\ out.kind \in {"ok", "fail"}
  /\ BagCardinality(inflight) > 0

\* The requests of a completed cycle, from what the call closed over, the
\* response and the clock alone.
AlertsOfCycle(call, r, clock, live) ==
  LET novel == NewEarthquakes(ValidFeaturesOf[r], call.prev, call.ann, clock)
      ids == [k \in DOMAIN novel |-> novel[k].id]
  IN  [kind |-> "ok", novel |-> ids, cue |-> (live /\ ids # <<>>),
       plays |-> playCalls(novel, live), spoken |-> ids,
       headline |-> IF ids = <<>> THEN "" ELSE ids[Len(ids)],
       mounted |-> live]

\* The novelty sets after a cycle of a mounted component, likewise.
NoveltyOfCycle(call, r, clock) ==
  LET novel == NewEarthquakes(ValidFeaturesOf[r], call.prev, call.ann, clock)
  IN  <<Ids(ValidFeaturesOf[r]),
        IF novel = <<>> THEN announcedEarthquakeIds
        ELSE call.ann \cup Ids(novel)>>

\* C28: alerting does not depend on the filter criteria.  A step that changes
\* startDate, endDate or minMag changes nothing of the fetch cycle: it starts
\* no fetch and requests no alert.  The requests of every completed cycle and
\* the novelty sets it leaves are those of a call in flight, the response and
\* the clock, whatever the criteria are; a call that starts closes over the
\* novelty sets only.
C28_AlertsIgnoreCriteria ==
  [][/\ (<<startDate, endDate, minMag>>' # <<startDate, endDate, minMag>>)
          => UNCHANGED mvars
     /\ (out' # out)
          => \E call \in BagToSet(inflight) :
               \/ out' = [NoOut EXCEPT !.kind = "fail",
                                       !.mounted = (phase = "mounted")]
               \/ \E r \in DOMAIN FeedResponses :
                    out' = AlertsOfCycle(call, r, now, phase = "mounted")
     /\ (<<previousEarthquakeIds, announcedEarthquakeIds>>'
           # <<previousEarthquakeIds, announcedEarthquakeIds>>)
          => \E call \in BagToSet(inflight), r \in DOMAIN FeedResponses :
               /\ out' = AlertsOfCycle(call, r, now, TRUE)
               /\ <<previousEarthquakeIds, announcedEarthquakeIds>>'
                    = NoveltyOfCycle(call, r, now)
     /\ \A c \in BagToSet(inflight') :
          CopiesIn(c, inflight') > CopiesIn(c, inflight)
            => c = [prev |-> previousEarthquakeIds',
                    ann |-> announcedEarthquakeIds']]_vars

\* A cycle has announced record E, whose null magnitude keeps it out of the
\* filtered list under the minimum magnitude the page is set to.
C28_ExcludedRecordAnnounced ==
  /\ phase = "mounted"
  /\ ~effectsPending
  /\ minMag = 45
  /\ out.kind = "ok" /\ out.cue
  /\ \E k \in DOMAIN out.spoken : out.spoken[k] = "E"
  /\ \E k \in DOMAIN earthquakes : earthquakes[k].id = "E"
  /\ \A k \in DOMAIN filteredEarthquakes : filteredEarthquakes[k].id # "E"

\* C29: at most one KMZ export is in progress.  isDownloading is true exactly
\* while a call of downloadKMZ awaits zip.generateAsync (line 796), and a call
\* gets there only when no other call does and the flag is false, the button
\* being disabled while the flag is true (line 1119).
C29_OneKmzExportAtATime ==
  [][/\ isDownloading <=> (kmzPending # None)
     /\ isDownloading' <=> (kmzPending' # None)
     /\ (kmzPending' # None /\ kmzPending' # kmzPending)
          => (~isDownloading /\ kmzPending = None)]_vars

\* A KMZ export is in progress, started after an earlier one was saved, and
\* the page shows other criteria than those it was started with.
C29_SecondExportInProgress ==
  /\ isDownloading
  /\ kmzPending # None
  /\ exported.kind = "kmz" /\ exported.file # None
  /\ kmzPending[1].startDate # startDate

\* isEthiopiaLocation with lines 423-431 removed: the falsy test, the
\* exclusion loop, the keyword loop, and false.
isEthiopiaLocationWithoutOfPass(place) ==
  IF IsFalsy(place) THEN FALSE
  ELSE LET placeLower == toLowerCase(place)
       IN  IF exclusionPass(placeLower) THEN FALSE
           ELSE inclusionPass(placeLower)

\* C30: the 'of ' pass of isEthiopiaLocation never changes the result: every
\* call returns what the classifier without lines 423-431 returns, and no
\* call returns through line 428.
C30_OfPassChangesNothing ==
  cPc = "returned"
    => /\ cResult = isEthiopiaLocationWithoutOfPass(cPlace)
       /\ cReturn # "of"

\* A call has run the 'of ' pass on a directional phrase and found no keyword
\* after 'of ': it returned false through line 433.
C30_OfPassRan ==
  /\ cPc = "returned"
  /\ cReturn = "default"
  /\ ~IsFalsy(cPlace)
  /\ includes(toLowerCase(cPlace), OfSep)
  /\ ~cResult

\* A call has returned true for a directional phrase, through the keyword
\* loop of lines 417-421 on the whole text.
C30_DirectionalInRegion ==
  /\ cPc = "returned"
  /\ cReturn = "inclusion"
  /\ includes(toLowerCase(cPlace), OfSep)
  /\ inclusionPass(splitSecond(toLowerCase(cPlace), OfSep))

====
